---- MODULE Spec2Model ----
(***************************************************************************)
(* tokio-socks: the SOCKS5 client handshake driver (src/src/tcp.rs) and    *)
(* the address adapters it uses (src/src/lib.rs).                          *)
(*                                                                         *)
(* The state is one ConnectFuture (its fields keep the source's names),    *)
(* the socket it drives, and what it produced.  One action per             *)
(* constructor and one per arm of the loop in ConnectFuture::poll; the     *)
(* outcome of every socket call (not ready, error, k bytes, end of file)   *)
(* is an input of the action.                                              *)
(*                                                                         *)
(* Bytes are 0..255.  A Rust String / &str is the sequence of its UTF-8    *)
(* bytes.  buf, the [u8; 513] that starts as zeros, is kept as its prefix  *)
(* up to the last byte ever stored; every byte beyond it is 0.  At(b, i)   *)
(* is the source's buf[i].                                                 *)
(***************************************************************************)
EXTENDS Integers, Sequences, FiniteSets, TLC

VARIABLES
    ctor,       \* the constructor that built the current future ("none" before any)
    ctorRes,    \* what that constructor returned: "none", "Ok" or an Error kind
    auth,       \* ConnectFuture.auth
    command,    \* ConnectFuture.command (as u8)
    proxy,      \* ConnectFuture.proxy: the stream of proxy candidates that remains
    target,     \* ConnectFuture.target
    state,      \* ConnectFuture.state: the ConnectState variant
    conn_fut,   \* the TokioConnect held by ConnectState::Created: Some(address) or None
    tcp,        \* the Option<TcpStream> of the later ConnectState variants: Some(peer) or None
    buf,        \* ConnectFuture.buf
    ptr,        \* ConnectFuture.ptr  (the spec's cursor)
    len,        \* ConnectFuture.len  (the spec's frame_len)
    pollRet,    \* the last return of poll: "none", "Running" (inside the loop),
                \* "NotReady", "Ready", "Err", "Panic"
    error,      \* the Error of an Err return, or of a failed constructor
    stream,     \* the Socks5Stream a ConnectFuture resolved to
    listener,   \* the Socks5Listener a BindFuture resolved to
    tx,         \* ghost: the bytes the socket accepted from this future, in order
    rx,         \* ghost: the bytes the socket delivered to this future, in order
    connects,   \* ghost: the addresses TcpStream::connect was called with, in order
    candidates, \* ghost: the candidates the proxy stream held when the future was built
    resolved,   \* ghost: name resolutions performed by the constructor
    eof,        \* socket: the proxy closed the connection (reads return 0 bytes)
    targetArg,  \* ghost: the target argument the constructor was called with
    spins       \* ghost: loop iterations of the running poll that moved nothing

vars == <<ctor, ctorRes, auth, command, proxy, target, state, conn_fut, tcp, buf,
          ptr, len, pollRet, error, stream, listener, tx, rx, connects, candidates,
          resolved, eof, spins, targetArg>>

(***************************************************************************)
(* Bounds of the model.                                                    *)
(***************************************************************************)
\* A socket call transfers 1..MaxChunk bytes, or all that the frame window has left.
MaxChunk == 2
\* Consecutive 0-byte reads followed inside one poll call.
MaxSpin == 2

(***************************************************************************)
(* Program constants.                                                      *)
(***************************************************************************)
BufSize == 513
CmdConnect == 1
CmdBind == 2

Byte == 0..255
None == [some |-> FALSE]
Some(x) == [some |-> TRUE, val |-> x]

U8(n) == n % 256

Min(a, b) == IF a < b THEN a ELSE b

\* n copies of byte b
Rep(n, b) == [i \in 1..n |-> b]


(***************************************************************************)
(* Errors (crate::Error; its variants are the ones tcp.rs and lib.rs       *)
(* construct).  reason is the &'static str of InvalidTargetAddress and     *)
(* InvalidAuthValues, status the byte of PasswordAuthFailure.              *)
(***************************************************************************)
Err(kind, reason, status) == [kind |-> kind, reason |-> reason, status |-> status]
E(kind) == Err(kind, "", 0)
NoError == E("none")

(***************************************************************************)
(* Text: &str as the sequence of its bytes.                                *)
(***************************************************************************)
Colon == 58
\* '0'..'9'
IsDigit(c) == c >= 48 /\ c <= 57

RECURSIVE DecValue(_)
\* the value of a non-empty string of decimal digits
DecValue(s) ==
    IF Len(s) = 0 THEN 0
    ELSE 10 * DecValue(SubSeq(s, 1, Len(s) - 1)) + (s[Len(s)] - 48)

AllDigits(s) == Len(s) > 0 /\ \A i \in 1..Len(s) : IsDigit(s[i])

\* the positions of byte c in s
Positions(s, c) == {i \in 1..Len(s) : s[i] = c}
Max(S) == CHOOSE x \in S : \A y \in S : y <= x
MinOf(S) == CHOOSE x \in S : \A y \in S : x <= y

\* str::parse::<u16>(): an optional '+', then digits, value at most 65535
ParseU16(s) ==
    LET d == IF Len(s) > 0 /\ s[1] = 43 THEN Tail(s) ELSE s
    IN IF AllDigits(d) /\ (Len(d) <= 5 \/ \A i \in 1..(Len(d) - 5) : d[i] = 48)
          /\ DecValue(d) <= 65535
       THEN [ok |-> TRUE, val |-> DecValue(d)]
       ELSE [ok |-> FALSE, val |-> 0]

RECURSIVE SplitOn(_, _)
\* s split at every byte c
SplitOn(s, c) ==
    IF Positions(s, c) = {} THEN <<s>>
    ELSE LET i == MinOf(Positions(s, c))
         IN <<SubSeq(s, 1, i - 1)>> \o SplitOn(SubSeq(s, i + 1, Len(s)), c)

\* one decimal octet of a dotted quad: 1..3 digits, at most 255
IsOctet(s) == AllDigits(s) /\ Len(s) <= 3 /\ DecValue(s) <= 255

\* str::parse::<Ipv4Addr>()
ParseIpv4(s) ==
    LET parts == SplitOn(s, 46)
    IN IF Len(parts) = 4 /\ \A i \in 1..4 : IsOctet(parts[i])
       THEN [ok |-> TRUE, ip |-> [i \in 1..4 |-> DecValue(parts[i])]]
       ELSE [ok |-> FALSE, ip |-> <<>>]

(***************************************************************************)
(* Addresses.  A SocketAddr is [v, ip, port] with ip the 4 or 16 octets    *)
(* (a V6 one has flowinfo and scope_id too, and equality compares them);   *)
(* a TargetAddr is Ip(SocketAddr) or Domain(String, u16).                  *)
(***************************************************************************)
SockV4(ip, port) == [v |-> 4, ip |-> ip, port |-> port]
\* SocketAddrV6::new(ip, port, 0, 0), as SocketAddr::from((ip, port)) and the parser make it
SockV6(ip, port) == [v |-> 6, ip |-> ip, port |-> port, flowinfo |-> 0, scope_id |-> 0]
Ip(addr) == [variant |-> "Ip", addr |-> addr]
Domain(name, port) == [variant |-> "Domain", name |-> name, port |-> port]

Ok(val) == [ok |-> TRUE, val |-> val]
Fail(e) == [ok |-> FALSE, err |-> e]

\* '0'..'9', 'a'..'f', 'A'..'F'
IsHex(c) == IsDigit(c) \/ (c >= 97 /\ c <= 102) \/ (c >= 65 /\ c <= 70)
HexDigit(c) == IF IsDigit(c) THEN c - 48 ELSE IF c >= 97 THEN c - 87 ELSE c - 55

RECURSIVE HexValue(_)
\* the value of a string of hexadecimal digits
HexValue(s) ==
    IF Len(s) = 0 THEN 0
    ELSE 16 * HexValue(SubSeq(s, 1, Len(s) - 1)) + HexDigit(s[Len(s)])

\* one group of an IPv6 address: 1..4 hexadecimal digits
IsGroup(s) == Len(s) \in 1..4 /\ \A i \in 1..Len(s) : IsHex(s[i])

\* the groups of a run "g:g:...:g" ("" has none)
Groups(s) == IF Len(s) = 0 THEN <<>> ELSE SplitOn(s, Colon)

RECURSIVE GroupBytes(_)
\* the octets of a sequence of groups, two per group, high octet first
GroupBytes(gs) ==
    IF Len(gs) = 0 THEN <<>>
    ELSE <<HexValue(gs[1]) \div 256, HexValue(gs[1]) % 256>> \o GroupBytes(Tail(gs))

\* str::parse::<Ipv6Addr>() of text in hexadecimal groups: eight groups, or fewer
\* around one "::" that stands for at least one group (a dotted-quad tail and a
\* zone are not text this model is given)
ParseIpv6(s) ==
    LET gaps == {i \in 1..(Len(s) - 1) : s[i] = Colon /\ s[i + 1] = Colon}
    IN IF gaps = {}
       THEN IF Len(Groups(s)) = 8 /\ \A i \in 1..8 : IsGroup(Groups(s)[i])
            THEN [ok |-> TRUE, ip |-> GroupBytes(Groups(s))]
            ELSE [ok |-> FALSE, ip |-> <<>>]
       ELSE LET k == MinOf(gaps)
                head == Groups(SubSeq(s, 1, k - 1))
                tail == Groups(SubSeq(s, k + 2, Len(s)))
            IN IF /\ \A i \in 1..Len(head) : IsGroup(head[i])
                  /\ \A i \in 1..Len(tail) : IsGroup(tail[i])
                  /\ Len(head) + Len(tail) <= 7
               THEN [ok |-> TRUE,
                     ip |-> GroupBytes(head)
                              \o [i \in 1..(2 * (8 - Len(head) - Len(tail))) |-> 0]
                              \o GroupBytes(tail)]
               ELSE [ok |-> FALSE, ip |-> <<>>]

\* str::parse::<IpAddr>(): the SocketAddr it makes with a port
ParseIpAddr(s) ==
    IF ParseIpv4(s).ok THEN [ok |-> TRUE, v |-> 4, ip |-> ParseIpv4(s).ip]
    ELSE IF ParseIpv6(s).ok THEN [ok |-> TRUE, v |-> 6, ip |-> ParseIpv6(s).ip]
    ELSE [ok |-> FALSE, v |-> 0, ip |-> <<>>]

\* str::parse::<SocketAddr>(): "a.b.c.d:port" or "[v6]:port", the port in plain digits
ParseSocketAddr(s) ==
    IF Positions(s, Colon) = {} THEN [ok |-> FALSE]
    ELSE LET i == Max(Positions(s, Colon))
             host == SubSeq(s, 1, i - 1)
             port == SubSeq(s, i + 1, Len(s))
             bare == IF Len(host) >= 2 /\ host[1] = 91 /\ host[Len(host)] = 93
                     THEN ParseIpv6(SubSeq(host, 2, Len(host) - 1))
                     ELSE [ok |-> FALSE, ip |-> <<>>]
         IN IF ~(AllDigits(port) /\ ParseU16(port).ok) THEN [ok |-> FALSE]
            ELSE IF ParseIpv4(host).ok
            THEN [ok |-> TRUE, addr |-> SockV4(ParseIpv4(host).ip, ParseU16(port).val)]
            ELSE IF bare.ok
            THEN [ok |-> TRUE, addr |-> SockV6(bare.ip, ParseU16(port).val)]
            ELSE [ok |-> FALSE]

\* impl IntoTargetAddr for (&str, u16)
IntoTargetAddrStrPort(host, port) ==
    IF ParseIpAddr(host).ok
    THEN Ok(Ip(IF ParseIpAddr(host).v = 4
               THEN SockV4(ParseIpAddr(host).ip, port)
               ELSE SockV6(ParseIpAddr(host).ip, port)))
    ELSE IF Len(host) > 255
         THEN Fail(Err("InvalidTargetAddress", "overlong domain", 0))
         ELSE Ok(Domain(host, port))

\* a "host:port" string split at its first ':'
IntoTargetAddrStr_FirstColon(s) ==
    IF ParseSocketAddr(s).ok THEN Ok(Ip(ParseSocketAddr(s).addr))
    ELSE LET cuts == Positions(s, Colon)
             last == IF cuts = {} THEN s ELSE SubSeq(s, MinOf(cuts) + 1, Len(s))
         IN IF ~ParseU16(last).ok
            THEN Fail(Err("InvalidTargetAddress", "invalid address format", 0))
            ELSE IF cuts = {}
                 THEN Fail(Err("InvalidTargetAddress", "invalid address format", 0))
                 ELSE IntoTargetAddrStrPort(SubSeq(s, 1, MinOf(cuts) - 1),
                                            ParseU16(last).val)

\* impl IntoTargetAddr for &str
IntoTargetAddrStr(s) ==
    IF ParseSocketAddr(s).ok THEN Ok(Ip(ParseSocketAddr(s).addr))
    ELSE LET cuts == Positions(s, Colon)
             \* rsplitn(2, ':'): the part after the last ':' comes first
             last == IF cuts = {} THEN s ELSE SubSeq(s, Max(cuts) + 1, Len(s))
         IN IF ~ParseU16(last).ok
            THEN Fail(Err("InvalidTargetAddress", "invalid address format", 0))
            ELSE IF cuts = {}
                 THEN Fail(Err("InvalidTargetAddress", "invalid address format", 0))
                 ELSE IntoTargetAddrStrPort(SubSeq(s, 1, Max(cuts) - 1),
                                            ParseU16(last).val)

\* into_target_addr of a target given as a SocketAddr, a (&str, u16) or a &str
IntoTargetAddr(t) ==
    CASE t.form = "SocketAddr" -> Ok(Ip(t.addr))
      [] t.form = "StrPort" -> IntoTargetAddrStrPort(t.host, t.port)
      [] t.form = "Str" -> IntoTargetAddrStr(t.s)


(***************************************************************************)
(* The scratch buffer and the frames ConnectFuture prepares in it.         *)
(***************************************************************************)
\* [0; 513]
ZeroBuf == <<>>

\* buf[i]
At(b, i) == IF i < Len(b) THEN b[i + 1] ELSE 0

\* &buf[from .. to]
Slice(b, from, to) == [i \in 1..(to - from) |-> At(b, from + i - 1)]

\* buf[start .. start + Len(src)].copy_from_slice(src)
CopyFromSlice(b, start, src) ==
    [i \in 1..(IF Len(b) > start + Len(src) THEN Len(b) ELSE start + Len(src)) |->
        IF i > start /\ i <= start + Len(src) THEN src[i - start] ELSE At(b, i - 1)]

AuthNone == [kind |-> "None"]
AuthPassword(u, p) == [kind |-> "Password", username |-> u, password |-> p]

\* Authentication::id
AuthId(a) == IF a.kind = "Password" THEN 2 ELSE 0

\* the greeting that offers NoAuth alone, whatever the authentication
MethodSelectionFrame_NoAuthOnly(a) == <<5, 1, 0>>

\* prepare_send_method_selection: the frame and its length
MethodSelectionFrame(a) ==
    IF a.kind = "None" THEN <<5, 1, 0>> ELSE <<5, 2, 0, 2>>

\* prepare_send_password_auth.  It panics without credentials (unreachable!) and
\* when an index or a slice passes the end of buf; reset tells whether self.ptr = 0
\* was reached, armed whether self.len was assigned (to len), buf is the buffer left
PrepareSendPasswordAuth(b, a) ==
    IF a.kind # "Password"
    THEN [panic |-> TRUE, reset |-> FALSE, armed |-> FALSE, len |-> 0, buf |-> b]
    ELSE LET username_len == Len(a.username)
             password_len == Len(a.password)
             n == 3 + username_len + password_len
             b1 == CopyFromSlice(b, 0, <<1, U8(username_len)>>)
             b2 == CopyFromSlice(b1, 2, a.username)
             b3 == CopyFromSlice(b2, 2 + username_len, <<U8(password_len)>>)
         IN IF 2 + username_len > BufSize
            THEN [panic |-> TRUE, reset |-> TRUE, armed |-> FALSE, len |-> 0, buf |-> b1]
            ELSE IF 2 + username_len >= BufSize
            THEN [panic |-> TRUE, reset |-> TRUE, armed |-> TRUE, len |-> n, buf |-> b2]
            ELSE IF n > BufSize
            THEN [panic |-> TRUE, reset |-> TRUE, armed |-> TRUE, len |-> n, buf |-> b3]
            ELSE [panic |-> FALSE, reset |-> TRUE, armed |-> TRUE, len |-> n,
                  buf |-> CopyFromSlice(b3, 3 + username_len, a.password)]

\* the two bytes of a port written low byte first
ToBeBytes_LittleEndian(port) == <<port % 256, port \div 256>>

\* u16::to_be_bytes
ToBeBytes(port) == <<port \div 256, port % 256>>

\* the two bytes of a port read low byte first
FromBeBytes_LittleEndian(hi, lo) == lo * 256 + hi

\* u16::from_be_bytes
FromBeBytes(hi, lo) == hi * 256 + lo

\* prepare_send_request: the frame written into buf[0 .. len]
RequestFrame(cmd, t) ==
    IF t.variant = "Ip"
    THEN <<5, cmd, 0, IF t.addr.v = 4 THEN 1 ELSE 4>> \o t.addr.ip \o ToBeBytes(t.addr.port)
    ELSE <<5, cmd, 0, 3, U8(Len(t.name))>> \o t.name \o ToBeBytes(t.port)

(***************************************************************************)
(* The stream of proxy candidates (ToProxyAddrs::Output): the addresses    *)
(* still to yield, and whether it holds a resolution error instead.        *)
(***************************************************************************)
\* res is "Ok" while the addresses can be iterated, "Err" while the stream holds the
\* resolver's error (ProxyAddrsStream(Some(Err(e)))), "None" once that error was taken
ProxyStream(items, res) == [items |-> items, res |-> res]
EmptyStream == ProxyStream(<<>>, "Ok")

\* whether to_proxy_addrs of this proxy looks a name up (str::to_socket_addrs of a
\* string that is no literal socket address)
LooksUp(p) == p.form = "Str" /\ ~ParseSocketAddr(p.s).ok

\* to_proxy_addrs; dns is what the resolver answers when a name is looked up
ToProxyAddrs(p, dns) ==
    IF p.form = "Slice" THEN ProxyStream(p.addrs, "Ok")
    ELSE IF ParseSocketAddr(p.s).ok THEN ProxyStream(<<ParseSocketAddr(p.s).addr>>, "Ok")
    ELSE IF dns.ok THEN ProxyStream(dns.val, "Ok")
    ELSE ProxyStream(<<>>, "Err")


(***************************************************************************)
(* Constructors.  Each returns a future (err = NoError, with the fields    *)
(* ConnectFuture::new is given) or an Error; resolved counts the name      *)
(* look-ups made on the way (arguments are evaluated left to right:        *)
(* proxy.to_proxy_addrs() before target.into_target_addr()?).              *)
(***************************************************************************)
\* connect_raw's check of the credentials
CheckAuth(a) ==
    IF a.kind # "Password" THEN NoError
    ELSE IF Len(a.username) < 1 \/ Len(a.username) > 255
         THEN Err("InvalidAuthValues", "username length should between 1 to 255", 0)
    ELSE IF Len(a.password) < 1 \/ Len(a.password) > 255
         THEN Err("InvalidAuthValues", "password length should between 1 to 255", 0)
    ELSE NoError

\* ConnectFuture::new(auth, command, proxy.to_proxy_addrs(), target.into_target_addr()?)
NewFuture(p, t, a, cmd, dns) ==
    LET px == ToProxyAddrs(p, dns)
        n == IF LooksUp(p) THEN 1 ELSE 0
        ta == IntoTargetAddr(t)
    IN IF ~ta.ok THEN [err |-> ta.err, resolved |-> n]
       ELSE [err |-> NoError, resolved |-> n, auth |-> a, command |-> cmd,
             proxy |-> px, target |-> ta.val]

\* Socks5Stream::connect_raw
ConnectRaw(p, t, a, cmd, dns) ==
    IF CheckAuth(a).kind # "none" THEN [err |-> CheckAuth(a), resolved |-> 0]
    ELSE NewFuture(p, t, a, cmd, dns)

\* Socks5Listener::bind
BindNew(p, t, dns) == NewFuture(p, t, AuthNone, CmdBind, dns)

\* Socks5Listener::bind_with_password
BindWithPasswordNew(p, t, u, pw, dns) == NewFuture(p, t, AuthPassword(u, pw), CmdBind, dns)

(***************************************************************************)
(* Inputs the constructors are called with.                                *)
(***************************************************************************)
A1 == SockV4(<<10, 0, 0, 1>>, 1080)
A2 == SockV4(<<10, 0, 0, 2>>, 1080)

\* "proxy:1080"
ProxyName == <<112, 114, 111, 120, 121, 58, 49, 48, 56, 48>>

ProxySpecs ==
    { [form |-> "Slice", addrs |-> <<>>],
      [form |-> "Slice", addrs |-> <<A1, A2>>],
      [form |-> "Str", s |-> ProxyName] }

\* what the resolver may answer: an error, no address, one address
DnsAnswers == { [ok |-> FALSE], Ok(<<>>), Ok(<<A1>>) }

TargetSpecs ==
    { [form |-> "SocketAddr", addr |-> SockV4(<<1, 1, 1, 1>>, 443)],
      \* ("1.1.1.1", 443)
      [form |-> "StrPort", host |-> <<49, 46, 49, 46, 49, 46, 49>>, port |-> 443],
      \* "ab:80"
      [form |-> "Str", s |-> <<97, 98, 58, 56, 48>>],
      \* a name of 256 bytes, ":80"
      [form |-> "Str", s |-> Rep(256, 97) \o <<58, 56, 48>>],
      \* "ab:65536"
      [form |-> "Str", s |-> <<97, 98, 58, 54, 53, 53, 51, 54>>],
      \* "ab"
      [form |-> "Str", s |-> <<97, 98>>] }

\* (username length, password length); the username is all 'u', the password all 'p'
CredLens ==
    { <<1, 255>>, <<255, 1>>, <<0, 1>>, <<1, 0>>, <<256, 1>>, <<1, 256>>, <<256, 255>> }
Username(c) == Rep(c[1], 117)
Password(c) == Rep(c[2], 112)

(***************************************************************************)
(* Initial state: no constructor has been called.                          *)
(***************************************************************************)
Init ==
    /\ ctor = "none"
    /\ ctorRes = "none"
    /\ auth = AuthNone
    /\ command = 0
    /\ proxy = EmptyStream
    /\ target = None
    /\ state = "None"
    /\ conn_fut = None
    /\ tcp = None
    /\ buf = ZeroBuf
    /\ ptr = 0
    /\ len = 0
    /\ pollRet = "none"
    /\ error = NoError
    /\ stream = None
    /\ listener = None
    /\ tx = <<>>
    /\ rx = <<>>
    /\ connects = <<>>
    /\ candidates = <<>>
    /\ resolved = 0
    /\ eof = FALSE
    /\ spins = 0
    /\ targetArg = None

\* the caller holds what constructor c, called with target t, returned
Constructed(c, t, r) ==
    /\ ctor = "none"
    /\ ctor' = c
    /\ targetArg' = Some(t)
    /\ resolved' = r.resolved
    /\ IF r.err.kind # "none"
       THEN /\ ctorRes' = r.err.kind
            /\ error' = r.err
            /\ UNCHANGED <<auth, command, proxy, target, state, candidates>>
       ELSE /\ ctorRes' = "Ok"
            /\ error' = NoError
            /\ auth' = r.auth
            /\ command' = r.command
            /\ proxy' = r.proxy
            /\ target' = r.target
            /\ state' = "Uninitialized"
            /\ candidates' = r.proxy.items
    /\ UNCHANGED <<conn_fut, tcp, buf, ptr, len, pollRet, stream, listener, tx, rx,
                   connects, eof, spins>>

\* Socks5Stream::connect(proxy, target)
Connect(p, t, dns) == Constructed("connect", t, ConnectRaw(p, t, AuthNone, CmdConnect, dns))

\* Socks5Stream::connect_with_password(proxy, target, username, password)
ConnectWithPassword(p, t, u, pw, dns) ==
    Constructed("connect_with_password", t, ConnectRaw(p, t, AuthPassword(u, pw), CmdConnect, dns))

\* Socks5Listener::bind(proxy, target)
Bind(p, t, dns) == Constructed("bind", t, BindNew(p, t, dns))

\* Socks5Listener::bind_with_password(proxy, target, username, password)
BindWithPassword(p, t, u, pw, dns) ==
    Constructed("bind_with_password", t, BindWithPasswordNew(p, t, u, pw, dns))


(***************************************************************************)
(* What the driver decides once a frame has been read in full.             *)
(***************************************************************************)
Goto(st) == [next |-> st, err |-> NoError]
Raise(e) == [next |-> "Err", err |-> e]
PanicNow == [next |-> "Panic", err |-> NoError]

\* a method reply on which a future with credentials sends them even for method 0
MethodReply_CredentialsAnyway(b, a) ==
    IF At(b, 0) # 5 THEN Raise(E("InvalidResponseVersion"))
    ELSE CASE At(b, 1) = 0 ->
                IF a.kind = "Password" THEN Goto("PasswordAuth") ELSE Goto("PrepareRequest")
           [] At(b, 1) = 255 -> Raise(E("NoAcceptableAuthMethods"))
           [] At(b, 1) = 2 -> Goto("PasswordAuth")
           [] OTHER -> Raise(E("UnknownAuthMethod"))

\* MethodSent: the method-selection reply [VER, METHOD] in buf[0..2]
MethodReply(b, a) ==
    IF At(b, 0) # 5 THEN Raise(E("InvalidResponseVersion"))
    ELSE CASE At(b, 1) = 0 -> Goto("PrepareRequest")
           [] At(b, 1) = 255 -> Raise(E("NoAcceptableAuthMethods"))
           [] At(b, 1) = 2 -> Goto("PasswordAuth")
           [] At(b, 1) \notin {0, 255, 2} /\ At(b, 1) # AuthId(a) ->
                Raise(E("UnknownAuthMethod"))
           [] OTHER -> PanicNow

\* a sub-negotiation reply judged by its STATUS alone
PasswordReply_VersionUnchecked(b) ==
    IF At(b, 1) # 0 THEN Raise(Err("PasswordAuthFailure", "", At(b, 1)))
    ELSE Goto("PrepareRequest")

\* PasswordAuthSent: the sub-negotiation reply [VER, STATUS] in buf[0..2]
PasswordReply(b) ==
    IF At(b, 0) # 1 THEN Raise(E("InvalidResponseVersion"))
    ELSE IF At(b, 1) # 0 THEN Raise(Err("PasswordAuthFailure", "", At(b, 1)))
    ELSE Goto("PrepareRequest")

\* the reply codes with 0x06 reported as 0x05
ReplyError_TtlAsRefused(rep) ==
    CASE rep = 0 -> NoError
      [] rep = 1 -> E("GeneralSocksServerFailure")
      [] rep = 2 -> E("ConnectionNotAllowedByRuleset")
      [] rep = 3 -> E("NetworkUnreachable")
      [] rep = 4 -> E("HostUnreachable")
      [] rep = 5 -> E("ConnectionRefused")
      [] rep = 6 -> E("ConnectionRefused")
      [] rep = 7 -> E("CommandNotSupported")
      [] rep = 8 -> E("AddressTypeNotSupported")
      [] OTHER -> E("UnknownAuthMethod")

\* RequestSent: the error of reply code REP (NoError for 0x00)
ReplyError(rep) ==
    CASE rep = 0 -> NoError
      [] rep = 1 -> E("GeneralSocksServerFailure")
      [] rep = 2 -> E("ConnectionNotAllowedByRuleset")
      [] rep = 3 -> E("NetworkUnreachable")
      [] rep = 4 -> E("HostUnreachable")
      [] rep = 5 -> E("ConnectionRefused")
      [] rep = 6 -> E("TtlExpired")
      [] rep = 7 -> E("CommandNotSupported")
      [] rep = 8 -> E("AddressTypeNotSupported")
      [] OTHER -> E("UnknownAuthMethod")

\* a reply header judged by its reply code before its reserved byte
ReplyHeader_CodeBeforeReserved(b) ==
    IF At(b, 0) # 5 THEN Raise(E("InvalidResponseVersion"))
    ELSE IF ReplyError(At(b, 1)).kind # "none" THEN Raise(ReplyError(At(b, 1)))
    ELSE IF At(b, 2) # 0 THEN Raise(E("InvalidReservedByte"))
    ELSE CASE At(b, 3) = 1 -> [next |-> "ReadAddress", err |-> NoError, len |-> 10]
           [] At(b, 3) = 4 -> [next |-> "ReadAddress", err |-> NoError, len |-> 22]
           [] At(b, 3) = 3 -> [next |-> "PrepareReadAddress", err |-> NoError, len |-> 5]
           [] OTHER -> Raise(E("UnknownAddressType"))

\* RequestSent: the reply header [VER, REP, RSV, ATYP] in buf[0..4]; len is the new
\* frame length when the header is accepted
ReplyHeader(b) ==
    IF At(b, 0) # 5 THEN Raise(E("InvalidResponseVersion"))
    ELSE IF At(b, 2) # 0 THEN Raise(E("InvalidReservedByte"))
    ELSE IF ReplyError(At(b, 1)).kind # "none" THEN Raise(ReplyError(At(b, 1)))
    ELSE CASE At(b, 3) = 1 -> [next |-> "ReadAddress", err |-> NoError, len |-> 10]
           [] At(b, 3) = 4 -> [next |-> "ReadAddress", err |-> NoError, len |-> 22]
           [] At(b, 3) = 3 -> [next |-> "PrepareReadAddress", err |-> NoError, len |-> 5]
           [] OTHER -> Raise(E("UnknownAddressType"))

\* a UTF-8 continuation byte
IsCont(c) == c >= 128 /\ c <= 191

\* the length of the UTF-8 sequence that lead byte c opens (0: c opens none)
Utf8Width(c) ==
    IF c < 128 THEN 1
    ELSE IF c >= 194 /\ c <= 223 THEN 2
    ELSE IF c >= 224 /\ c <= 239 THEN 3
    ELSE IF c >= 240 /\ c <= 244 THEN 4
    ELSE 0

\* String::from_utf8(bytes).is_ok(): every byte that is no continuation byte opens a
\* well-formed sequence, and every continuation byte belongs to one
IsUtf8(s) ==
    \A i \in 1..Len(s) :
        IF IsCont(s[i])
        THEN \E j \in 1..(i - 1) :
                /\ i - j <= 3
                /\ Utf8Width(s[j]) > i - j
                /\ \A k \in (j + 1)..i : IsCont(s[k])
        ELSE LET c == s[i]
                 w == Utf8Width(c)
             IN /\ w >= 1
                /\ i + w - 1 <= Len(s)
                /\ \A k \in 1..(w - 1) : IsCont(s[i + k])
                /\ (c = 224 => s[i + 1] >= 160)
                /\ (c = 237 => s[i + 1] <= 159)
                /\ (c = 240 => s[i + 1] >= 144)
                /\ (c = 244 => s[i + 1] <= 143)

\* ReadAddress: the TargetAddr in the whole reply buf[0..n] (unreachable!() is the
\* error "panic")
ParseAddress(b, n) ==
    CASE At(b, 3) = 1 ->
           Ok(Ip(SockV4(Slice(b, 4, 8), FromBeBytes(At(b, 8), At(b, 9)))))
      [] At(b, 3) = 4 ->
           Ok(Ip(SockV6(Slice(b, 4, 20), FromBeBytes(At(b, 20), At(b, 21)))))
      [] At(b, 3) = 3 ->
           IF IsUtf8(Slice(b, 5, n - 2))
           THEN Ok(Domain(Slice(b, 5, n - 2), FromBeBytes(At(b, n - 2), At(b, n - 1))))
           ELSE Fail(Err("InvalidTargetAddress", "not a valid UTF-8 string", 0))
      [] OTHER -> Fail(E("panic"))


(***************************************************************************)
(* The socket.  A write accepts k >= 1 bytes of the window, a read         *)
(* delivers k >= 1 bytes into it, or 0 bytes once the proxy has closed;    *)
(* either may report not-ready or fail.                                    *)
(***************************************************************************)
\* the numbers of bytes one call may transfer when n are left in the window
ChunkSizes(n) == (1..Min(MaxChunk, n)) \cup (IF n >= 1 THEN {n} ELSE {})

\* the bytes the proxy may send at offset pos of the frame read in state st
\* (b: the buffer so far)
RxSamples(st, pos, b) ==
    CASE st = "MethodSent" ->
           IF pos = 0 THEN {5, 4} ELSE {0, 2, 255, 1}
      [] st = "PasswordAuthSent" ->
           IF pos = 0 THEN {1, 5} ELSE {0, 1, 255}
      [] st = "RequestSent" ->
           CASE pos = 0 -> {5, 4}
             [] pos = 1 -> {0, 4, 9}
             [] pos = 2 -> {0, 1}
             [] OTHER -> {1, 3, 4, 2}
      [] st = "PrepareReadAddress" -> {0, 1, 2}
      [] st = "ReadAddress" /\ At(b, 3) = 1 ->
           CASE pos = 4 -> {1, 170}
             [] pos = 9 -> {187, 80}
             [] OTHER -> {1}
      [] st = "ReadAddress" /\ At(b, 3) = 4 ->
           CASE pos = 20 -> {31}
             [] pos = 21 -> {144}
             [] OTHER -> {32 + pos}
      [] OTHER ->
           CASE pos >= 5 + At(b, 4) -> IF pos = 5 + At(b, 4) THEN {0} ELSE {80}
             [] At(b, 4) = 2 -> {97, 195, 169, Colon}
             [] At(b, 4) < 2 -> {97, 195, 169}
             [] OTHER -> {97}

RECURSIVE RxData(_, _, _, _)
\* the byte strings of length k the proxy may deliver at offset pos
RxData(st, pos, b, k) ==
    IF k = 0 THEN {<<>>}
    ELSE {<<c>> \o d : c \in RxSamples(st, pos, b), d \in RxData(st, pos + 1, b, k - 1)}

\* the states whose arm reads from the socket, and those whose arm writes to it
ReadStates ==
    {"MethodSent", "PasswordAuthSent", "RequestSent", "PrepareReadAddress", "ReadAddress"}
WriteStates == {"Connected", "PasswordAuth", "SendRequest"}

\* what poll_read(&mut buf[ptr..len]) may return
ReadOutcomes ==
    IF state \notin ReadStates THEN {}
    ELSE IF eof THEN {[kind |-> "Bytes", data |-> <<>>]}
    ELSE {[kind |-> "NotReady"], [kind |-> "Err"], [kind |-> "Bytes", data |-> <<>>]}
         \cup {[kind |-> "Bytes", data |-> d] :
                 d \in UNION {RxData(state, ptr, buf, k) : k \in ChunkSizes(len - ptr)}}

\* what poll_write(&buf[ptr..len]) may return
WriteOutcomes ==
    IF state \notin WriteStates THEN {}
    ELSE {[kind |-> "NotReady"], [kind |-> "Err"]}
         \cup {[kind |-> "Bytes", n |-> k] : k \in ChunkSizes(len - ptr)}

(***************************************************************************)
(* ConnectFuture::poll, one action per arm of its loop.                    *)
(***************************************************************************)
Ghost == <<tx, rx, connects, eof>>
Fixed == <<ctor, ctorRes, resolved, candidates, targetArg>>

\* the future exists and has not completed
Pollable == ctorRes = "Ok" /\ pollRet \in {"none", "Running", "NotReady"}

IsBind == ctor \in {"bind", "bind_with_password"}

\* return Ok(Async::NotReady)
ReturnNotReady ==
    /\ pollRet' = "NotReady"
    /\ spins' = 0
    /\ UNCHANGED <<error, stream, listener>>

\* return Err(e)
ReturnErr(e) ==
    /\ pollRet' = "Err"
    /\ error' = e
    /\ spins' = 0
    /\ UNCHANGED <<stream, listener>>

\* a panic unwinds out of poll
ReturnPanic ==
    /\ pollRet' = "Panic"
    /\ spins' = 0
    /\ UNCHANGED <<error, stream, listener>>

\* the loop goes round again
Continue ==
    /\ pollRet' = "Running"
    /\ spins' = 0
    /\ UNCHANGED <<error, stream, listener>>

\* Uninitialized with a resolver's error taken for the end of the sequence
PollUninitialized_ErrorAsEnd ==
    /\ Pollable
    /\ state = "Uninitialized"
    /\ IF Len(proxy.items) > 0
       THEN /\ proxy' = [proxy EXCEPT !.items = Tail(proxy.items)]
            /\ state' = "Created"
            /\ conn_fut' = Some(Head(proxy.items))
            /\ connects' = Append(connects, Head(proxy.items))
            /\ Continue
       ELSE /\ proxy' = [proxy EXCEPT !.res = IF proxy.res = "Ok" THEN "Ok" ELSE "None"]
            /\ ReturnErr(E("ProxyServerUnreachable"))
            /\ UNCHANGED <<state, conn_fut, connects>>
    /\ UNCHANGED <<auth, command, target, tcp, buf, ptr, len, tx, rx, eof>>
    /\ UNCHANGED Fixed

\* Uninitialized: the next candidate of the proxy stream
PollUninitialized ==
    /\ Pollable
    /\ state = "Uninitialized"
    /\ IF proxy.res = "Err"
       THEN /\ proxy' = [proxy EXCEPT !.res = "None"]
            /\ ReturnErr(E("Io"))
            /\ UNCHANGED <<state, conn_fut, connects>>
       ELSE IF proxy.res = "None"
       THEN /\ ReturnPanic
            /\ UNCHANGED <<proxy, state, conn_fut, connects>>
       ELSE IF Len(proxy.items) > 0
       THEN /\ proxy' = [proxy EXCEPT !.items = Tail(proxy.items)]
            /\ state' = "Created"
            /\ conn_fut' = Some(Head(proxy.items))
            /\ connects' = Append(connects, Head(proxy.items))
            /\ Continue
       ELSE /\ ReturnErr(E("ProxyServerUnreachable"))
            /\ UNCHANGED <<proxy, state, conn_fut, connects>>
    /\ UNCHANGED <<auth, command, target, tcp, buf, ptr, len, tx, rx, eof>>
    /\ UNCHANGED Fixed

\* a failed connect returned as the error of the future
ConnectFailed_Surfaced ==
    /\ ReturnErr(E("Io"))
    /\ UNCHANGED <<state, conn_fut, tcp, ptr, buf, len>>

\* Created, Err(_e): back to Uninitialized for the next candidate
ConnectFailed ==
    /\ state' = "Uninitialized"
    /\ conn_fut' = None
    /\ Continue
    /\ UNCHANGED <<tcp, ptr, buf, len>>

\* Created: the pending TCP connect; o is what conn_fut.poll() returns
PollCreated(o) ==
    /\ Pollable
    /\ state = "Created"
    /\ CASE o = "Ready" ->
              /\ state' = "Connected"
              /\ tcp' = conn_fut
              /\ conn_fut' = None
              /\ ptr' = 0
              /\ buf' = CopyFromSlice(buf, 0, MethodSelectionFrame(auth))
              /\ len' = Len(MethodSelectionFrame(auth))
              /\ Continue
         [] o = "NotReady" ->
              /\ ReturnNotReady
              /\ UNCHANGED <<state, tcp, conn_fut, ptr, buf, len>>
         [] OTHER -> ConnectFailed
    /\ UNCHANGED <<auth, command, proxy, target, tx, rx, connects, eof>>
    /\ UNCHANGED Fixed


\* a failed write answered by going back for the next candidate
WriteFailed_Retry ==
    /\ state' = "Uninitialized"
    /\ Continue
    /\ UNCHANGED <<ptr, len, tx>>

\* try_ready! on a failed poll_write: the error is returned
WriteFailed ==
    /\ ReturnErr(E("Io"))
    /\ UNCHANGED <<state, ptr, len, tx>>

\* a write taken for the whole frame whatever it accepted
WroteAll_Any(o) == TRUE

\* if self.ptr == self.len, after a write of o.n bytes
WroteAll(o) == ptr + o.n = len

\* a writing arm: self.ptr += try_ready!(tcp.poll_write(&self.buf[self.ptr..self.len])),
\* and once the frame is out the next state st2 with a read of n2 bytes armed
WriteArm(o, st2, n2) ==
    /\ CASE o.kind = "NotReady" ->
              /\ ReturnNotReady
              /\ UNCHANGED <<state, ptr, len, tx>>
         [] o.kind = "Err" -> WriteFailed
         [] OTHER ->
              /\ tx' = tx \o Slice(buf, ptr, ptr + o.n)
              /\ IF WroteAll(o)
                 THEN state' = st2 /\ ptr' = 0 /\ len' = n2
                 ELSE ptr' = ptr + o.n /\ UNCHANGED <<state, len>>
              /\ Continue
    /\ UNCHANGED <<auth, command, proxy, target, conn_fut, tcp, buf, rx, connects, eof>>
    /\ UNCHANGED Fixed

\* Connected: write the method-selection frame
PollConnected(o) ==
    /\ Pollable
    /\ state = "Connected"
    /\ WriteArm(o, "MethodSent", 2)

\* PasswordAuth: write the username/password frame
PollPasswordAuth(o) ==
    /\ Pollable
    /\ state = "PasswordAuth"
    /\ WriteArm(o, "PasswordAuthSent", 2)

\* SendRequest: write the command request
PollSendRequest(o) ==
    /\ Pollable
    /\ state = "SendRequest"
    /\ WriteArm(o, "RequestSent", 4)

\* PrepareRequest: prepare_send_request
PollPrepareRequest ==
    /\ Pollable
    /\ state = "PrepareRequest"
    /\ state' = "SendRequest"
    /\ ptr' = 0
    /\ buf' = CopyFromSlice(buf, 0, RequestFrame(command, target))
    /\ len' = Len(RequestFrame(command, target))
    /\ Continue
    /\ UNCHANGED <<auth, command, proxy, target, conn_fut, tcp>>
    /\ UNCHANGED Ghost
    /\ UNCHANGED Fixed

\* a read taken for the whole frame as soon as it delivers anything
ReadsAll_AnyBytes(o) == o.kind = "Bytes" /\ Len(o.data) > 0

\* the read completes the frame window
ReadsAll(o) == o.kind = "Bytes" /\ Len(o.data) > 0 /\ ptr + Len(o.data) = len

\* a reading arm that starts the frame over when the socket is not ready
ReadPart_NotReadyRewinds(o) ==
    /\ CASE o.kind = "NotReady" ->
              /\ ReturnNotReady
              /\ ptr' = 0
              /\ UNCHANGED <<buf, rx, eof>>
         [] o.kind = "Err" ->
              /\ ReturnErr(E("Io"))
              /\ UNCHANGED <<buf, ptr, rx, eof>>
         [] o.kind = "Bytes" /\ Len(o.data) = 0 ->
              /\ spins < MaxSpin
              /\ spins' = spins + 1
              /\ eof' = TRUE
              /\ pollRet' = "Running"
              /\ UNCHANGED <<buf, ptr, rx, error, stream, listener>>
         [] OTHER ->
              /\ buf' = CopyFromSlice(buf, ptr, o.data)
              /\ ptr' = ptr + Len(o.data)
              /\ rx' = rx \o o.data
              /\ Continue
              /\ UNCHANGED eof
    /\ UNCHANGED <<auth, command, proxy, target, state, conn_fut, tcp, len, tx, connects>>
    /\ UNCHANGED Fixed

\* a reading arm whose read does not complete the frame:
\* self.ptr += try_ready!(tcp.poll_read(&mut self.buf[self.ptr..self.len]))
ReadPart(o) ==
    /\ CASE o.kind = "NotReady" ->
              /\ ReturnNotReady
              /\ UNCHANGED <<buf, ptr, rx, eof>>
         [] o.kind = "Err" ->
              /\ ReturnErr(E("Io"))
              /\ UNCHANGED <<buf, ptr, rx, eof>>
         [] o.kind = "Bytes" /\ Len(o.data) = 0 ->
              \* Ok(0): nothing moves and the loop goes round again
              /\ spins < MaxSpin
              /\ spins' = spins + 1
              /\ eof' = TRUE
              /\ pollRet' = "Running"
              /\ UNCHANGED <<buf, ptr, rx, error, stream, listener>>
         [] OTHER ->
              /\ buf' = CopyFromSlice(buf, ptr, o.data)
              /\ ptr' = ptr + Len(o.data)
              /\ rx' = rx \o o.data
              /\ Continue
              /\ UNCHANGED eof
    /\ UNCHANGED <<auth, command, proxy, target, state, conn_fut, tcp, len, tx, connects>>
    /\ UNCHANGED Fixed

\* MethodSent: read [VER, METHOD] and dispatch on the method
PollMethodSent(o) ==
    /\ Pollable
    /\ state = "MethodSent"
    /\ IF ~ReadsAll(o) THEN ReadPart(o)
       ELSE LET b2 == CopyFromSlice(buf, ptr, o.data)
                d == MethodReply(b2, auth)
                pa == PrepareSendPasswordAuth(b2, auth)
            IN /\ rx' = rx \o o.data
               /\ CASE d.next = "Err" ->
                         /\ ReturnErr(d.err)
                         /\ buf' = b2 /\ ptr' = len
                         /\ UNCHANGED <<state, len>>
                    [] d.next = "Panic" ->
                         /\ ReturnPanic
                         /\ buf' = b2 /\ ptr' = len
                         /\ UNCHANGED <<state, len>>
                    [] d.next = "PrepareRequest" ->
                         /\ state' = "PrepareRequest"
                         /\ buf' = b2 /\ ptr' = len
                         /\ Continue
                         /\ UNCHANGED len
                    [] OTHER ->
                         /\ state' = "PasswordAuth"
                         /\ buf' = pa.buf
                         /\ ptr' = IF pa.reset THEN 0 ELSE len
                         /\ len' = IF pa.armed THEN pa.len ELSE len
                         /\ IF pa.panic THEN ReturnPanic ELSE Continue
               /\ UNCHANGED <<auth, command, proxy, target, conn_fut, tcp, tx, connects, eof>>
               /\ UNCHANGED Fixed

\* PasswordAuthSent: read [VER, STATUS]
PollPasswordAuthSent(o) ==
    /\ Pollable
    /\ state = "PasswordAuthSent"
    /\ IF ~ReadsAll(o) THEN ReadPart(o)
       ELSE LET b2 == CopyFromSlice(buf, ptr, o.data)
                d == PasswordReply(b2)
            IN /\ rx' = rx \o o.data
               /\ buf' = b2
               /\ ptr' = len
               /\ IF d.next = "Err"
                  THEN ReturnErr(d.err) /\ UNCHANGED state
                  ELSE state' = "PrepareRequest" /\ Continue
               /\ UNCHANGED <<auth, command, proxy, target, conn_fut, tcp, len, tx,
                              connects, eof>>
               /\ UNCHANGED Fixed

\* RequestSent: read the reply header [VER, REP, RSV, ATYP]
PollRequestSent(o) ==
    /\ Pollable
    /\ state = "RequestSent"
    /\ IF ~ReadsAll(o) THEN ReadPart(o)
       ELSE LET b2 == CopyFromSlice(buf, ptr, o.data)
                d == ReplyHeader(b2)
            IN /\ rx' = rx \o o.data
               /\ buf' = b2
               /\ ptr' = len
               /\ IF d.next = "Err"
                  THEN ReturnErr(d.err) /\ UNCHANGED <<state, len>>
                  ELSE state' = d.next /\ len' = d.len /\ Continue
               /\ UNCHANGED <<auth, command, proxy, target, conn_fut, tcp, tx, connects, eof>>
               /\ UNCHANGED Fixed

\* the window extended by the name alone, without the port
AddressWindow_NoPort(n, b) == n + At(b, 4)

\* self.len += self.buf[4] as usize + 2
AddressWindow(n, b) == n + At(b, 4) + 2

\* PrepareReadAddress: read the length byte of a domain name and extend the window
PollPrepareReadAddress(o) ==
    /\ Pollable
    /\ state = "PrepareReadAddress"
    /\ IF ~ReadsAll(o) THEN ReadPart(o)
       ELSE LET b2 == CopyFromSlice(buf, ptr, o.data)
            IN /\ rx' = rx \o o.data
               /\ buf' = b2
               /\ ptr' = len
               /\ len' = AddressWindow(len, b2)
               /\ state' = "ReadAddress"
               /\ Continue
               /\ UNCHANGED <<auth, command, proxy, target, conn_fut, tcp, tx, connects, eof>>
               /\ UNCHANGED Fixed

\* ReadAddress: read BND.ADDR and BND.PORT and resolve the future
\* (BindFuture::poll wraps the stream in a Socks5Listener)
PollReadAddress(o) ==
    /\ Pollable
    /\ state = "ReadAddress"
    /\ IF ~ReadsAll(o) THEN ReadPart(o)
       ELSE LET b2 == CopyFromSlice(buf, ptr, o.data)
                r == ParseAddress(b2, len)
            IN /\ rx' = rx \o o.data
               /\ buf' = b2
               /\ ptr' = len
               /\ IF r.ok
                  THEN /\ pollRet' = "Ready"
                       /\ spins' = 0
                       /\ tcp' = None
                       /\ IF IsBind
                          THEN /\ listener' = Some([inner |-> [tcp |-> tcp.val, target |-> r.val]])
                               /\ UNCHANGED stream
                          ELSE /\ stream' = Some([tcp |-> tcp.val, target |-> r.val])
                               /\ UNCHANGED listener
                       /\ UNCHANGED error
                  ELSE /\ IF r.err.kind = "panic" THEN ReturnPanic ELSE ReturnErr(r.err)
                       /\ UNCHANGED tcp
               /\ UNCHANGED <<auth, command, proxy, target, state, conn_fut, len, tx,
                              connects, eof>>
               /\ UNCHANGED Fixed

\* an accept whose future starts over from the (empty) proxy sequence
Accept_FromStart ==
    /\ listener.some
    /\ ctor' = "accept"
    /\ ctorRes' = "Ok"
    /\ auth' = AuthNone
    /\ command' = CmdBind
    /\ proxy' = EmptyStream
    /\ target' = listener.val.inner.target
    /\ state' = "Uninitialized"
    /\ conn_fut' = None
    /\ tcp' = None
    /\ buf' = ZeroBuf
    /\ ptr' = 0
    /\ len' = 0
    /\ pollRet' = "none"
    /\ listener' = None
    /\ tx' = <<>>
    /\ rx' = <<>>
    /\ candidates' = <<>>
    /\ resolved' = 0
    /\ spins' = 0
    /\ targetArg' = None
    /\ UNCHANGED <<error, stream, connects, eof>>

\* an accept that hands out the listener's stream without reading a second reply
Accept_NoSecondReply ==
    /\ listener.some
    /\ ctor' = "accept"
    /\ ctorRes' = "Ok"
    /\ auth' = AuthNone
    /\ command' = CmdBind
    /\ proxy' = EmptyStream
    /\ target' = listener.val.inner.target
    /\ state' = "ReadAddress"
    /\ conn_fut' = None
    /\ tcp' = None
    /\ buf' = ZeroBuf
    /\ ptr' = 0
    /\ len' = 0
    /\ pollRet' = "Ready"
    /\ stream' = Some(listener.val.inner)
    /\ listener' = None
    /\ tx' = <<>>
    /\ rx' = <<>>
    /\ candidates' = <<>>
    /\ resolved' = 0
    /\ spins' = 0
    /\ targetArg' = None
    /\ UNCHANGED <<error, connects, eof>>

\* Socks5Listener::accept: a new future, in RequestSent on the listener's socket
Accept ==
    /\ listener.some
    /\ ctor' = "accept"
    /\ ctorRes' = "Ok"
    /\ auth' = AuthNone
    /\ command' = CmdBind
    /\ proxy' = EmptyStream
    /\ target' = listener.val.inner.target
    /\ state' = "RequestSent"
    /\ conn_fut' = None
    /\ tcp' = Some(listener.val.inner.tcp)
    /\ buf' = ZeroBuf
    /\ ptr' = 0
    /\ len' = 4
    /\ pollRet' = "none"
    /\ listener' = None
    /\ tx' = <<>>
    /\ rx' = <<>>
    /\ candidates' = <<>>
    /\ resolved' = 0
    /\ spins' = 0
    /\ targetArg' = None
    /\ UNCHANGED <<error, stream, connects, eof>>

Next ==
    \/ \E p \in ProxySpecs, t \in TargetSpecs, dns \in DnsAnswers : Connect(p, t, dns)
    \/ \E p \in ProxySpecs, t \in TargetSpecs, dns \in DnsAnswers, c \in CredLens :
          ConnectWithPassword(p, t, Username(c), Password(c), dns)
    \/ \E p \in ProxySpecs, t \in TargetSpecs, dns \in DnsAnswers : Bind(p, t, dns)
    \/ \E p \in ProxySpecs, t \in TargetSpecs, dns \in DnsAnswers, c \in CredLens :
          BindWithPassword(p, t, Username(c), Password(c), dns)
    \/ Accept
    \/ PollUninitialized
    \/ \E o \in {"Ready", "NotReady", "Err"} : PollCreated(o)
    \/ \E o \in WriteOutcomes : PollConnected(o)
    \/ \E o \in ReadOutcomes : PollMethodSent(o)
    \/ \E o \in WriteOutcomes : PollPasswordAuth(o)
    \/ \E o \in ReadOutcomes : PollPasswordAuthSent(o)
    \/ PollPrepareRequest
    \/ \E o \in WriteOutcomes : PollSendRequest(o)
    \/ \E o \in ReadOutcomes : PollRequestSent(o)
    \/ \E o \in ReadOutcomes : PollPrepareReadAddress(o)
    \/ \E o \in ReadOutcomes : PollReadAddress(o)

Spec == Init /\ [][Next]_vars


(***************************************************************************)
(* The reply phase on its own: the future Socks5Listener::accept builds    *)
(* (state RequestSent on a connected socket, a 4-byte read armed) against  *)
(* a proxy that may send any reply code.                                   *)
(***************************************************************************)
\* the bytes the proxy may send at offset pos of the reply
ReplySamples(st, pos, b) ==
    IF st = "RequestSent"
    THEN CASE pos = 0 -> {5, 4, 0}
           [] pos = 1 -> Byte
           [] pos = 2 -> {0, 1, 255}
           [] OTHER -> {1, 3, 4, 2}
    ELSE IF st = "PrepareReadAddress" THEN {0, 1, 2, 255}
    ELSE RxSamples(st, pos, b)

RECURSIVE ReplyData(_, _, _, _)
\* the byte strings of length k the proxy may deliver at offset pos of the reply
\* (where every offset has one sample, the one string of them)
ReplyData(st, pos, b, k) ==
    IF k = 0 THEN {<<>>}
    ELSE IF \A i \in 0..(k - 1) : Cardinality(ReplySamples(st, pos + i, b)) = 1
    THEN {[i \in 1..k |-> CHOOSE c \in ReplySamples(st, pos + i - 1, b) : TRUE]}
    ELSE {<<c>> \o d : c \in ReplySamples(st, pos, b),
                       d \in ReplyData(st, pos + 1, b, k - 1)}

\* what poll_read(&mut buf[ptr..len]) may return while the reply is read
ReplyOutcomes ==
    IF state \notin {"RequestSent", "PrepareReadAddress", "ReadAddress"} THEN {}
    ELSE IF eof THEN {[kind |-> "Bytes", data |-> <<>>]}
    ELSE {[kind |-> "NotReady"], [kind |-> "Err"], [kind |-> "Bytes", data |-> <<>>]}
         \cup {[kind |-> "Bytes", data |-> d] :
                 d \in UNION {ReplyData(state, ptr, buf, k) : k \in ChunkSizes(len - ptr)}}

\* ConnectFuture { .. } of Socks5Listener::accept, after prepare_recv_reply
ReplyInit ==
    /\ ctor = "accept"
    /\ ctorRes = "Ok"
    /\ auth = AuthNone
    /\ command = CmdBind
    /\ proxy = EmptyStream
    /\ target = Ip(A2)
    /\ state = "RequestSent"
    /\ conn_fut = None
    /\ tcp = Some(A1)
    /\ buf = ZeroBuf
    /\ ptr = 0
    /\ len = 4
    /\ pollRet = "none"
    /\ error = NoError
    /\ stream = None
    /\ listener = None
    /\ tx = <<>>
    /\ rx = <<>>
    /\ connects = <<A1>>
    /\ candidates = <<>>
    /\ resolved = 0
    /\ eof = FALSE
    /\ spins = 0
    /\ targetArg = None

ReplyNext ==
    \/ \E o \in ReplyOutcomes : PollRequestSent(o)
    \/ \E o \in ReplyOutcomes : PollPrepareReadAddress(o)
    \/ \E o \in ReplyOutcomes : PollReadAddress(o)

ReplySpec == ReplyInit /\ [][ReplyNext]_vars


(***************************************************************************)
(* The command exchange against a proxy that answers a request with a      *)
(* success reply carrying the request's own ATYP, address and port.        *)
(***************************************************************************)
\* targets of every address type, as the caller writes them
CodecTargets ==
    { \* "1.1.1.1:443"
      [form |-> "Str", s |-> <<49, 46, 49, 46, 49, 46, 49, 58, 52, 52, 51>>],
      \* "[1:2:3:4:5:6:7:8]:8080"
      [form |-> "Str", s |-> <<91, 49, 58, 50, 58, 51, 58, 52, 58, 53, 58, 54, 58, 55,
                               58, 56, 93, 58, 56, 48, 56, 48>>],
      \* ("::1", 1)
      [form |-> "StrPort", host |-> <<58, 58, 49>>, port |-> 1],
      \* "ab:80"
      [form |-> "Str", s |-> <<97, 98, 58, 56, 48>>],
      \* ("a", 256)
      [form |-> "StrPort", host |-> <<97>>, port |-> 256],
      \* a two-byte UTF-8 name, ":1"
      [form |-> "Str", s |-> <<195, 169, 58, 49>>],
      \* a name of 255 bytes, port 65535
      [form |-> "StrPort", host |-> Rep(255, 97), port |-> 65535],
      \* SocketAddrV6::new(fe80::1, 22, 0, 3)
      [form |-> "SocketAddr",
       addr |-> [v |-> 6, ip |-> <<254, 128, 0, 0, 0, 0, 0, 0, 0, 0, 0, 0, 0, 0, 0, 1>>,
                 port |-> 22, flowinfo |-> 0, scope_id |-> 3]] }

\* the proxy the exchange runs on, and the resolver (not consulted)
CodecProxy == [form |-> "Slice", addrs |-> <<A1, A2>>]
CodecDns == [ok |-> FALSE]

\* the reply that echoes the request written after the greeting
EchoReply ==
    LET req == SubSeq(tx, Len(MethodSelectionFrame(auth)) + 1, Len(tx))
    IN <<5, 0, 0>> \o SubSeq(req, 4, Len(req))

\* what poll_read(&mut buf[ptr..len]) may return while that reply arrives
EchoOutcomes ==
    IF state \notin {"RequestSent", "PrepareReadAddress", "ReadAddress"} THEN {}
    ELSE {[kind |-> "NotReady"]}
         \cup {[kind |-> "Bytes", data |-> SubSeq(EchoReply, ptr + 1, ptr + k)] :
                 k \in ChunkSizes(len - ptr)}

\* what poll_write may return on a socket that does not fail
CodecWrites == {o \in WriteOutcomes : o.kind # "Err"}

CodecNext ==
    \/ \E t \in CodecTargets : Connect(CodecProxy, t, CodecDns)
    \/ \E t \in CodecTargets : Bind(CodecProxy, t, CodecDns)
    \/ PollUninitialized
    \/ PollCreated("Ready")
    \/ \E o \in CodecWrites : PollConnected(o)
    \/ PollMethodSent([kind |-> "Bytes", data |-> <<5, 0>>])
    \/ PollPrepareRequest
    \/ \E o \in CodecWrites : PollSendRequest(o)
    \/ \E o \in EchoOutcomes : PollRequestSent(o)
    \/ \E o \in EchoOutcomes : PollPrepareReadAddress(o)
    \/ \E o \in EchoOutcomes : PollReadAddress(o)

CodecSpec == Init /\ [][CodecNext]_vars


(***************************************************************************)
(* The constructors on their own, called with targets of every shape.      *)
(***************************************************************************)
\* host texts: "", "a", "ab", "1.1.1.1", "1.1.1", "::1", "::", "[::1]", "a:b",
\* a two-byte UTF-8 name, and names of 255 and 256 bytes
ConvHosts ==
    { <<>>, <<97>>, <<97, 98>>, <<49, 46, 49, 46, 49, 46, 49>>, <<49, 46, 49, 46, 49>>,
      <<58, 58, 49>>, <<58, 58>>, <<91, 58, 58, 49, 93>>, <<97, 58, 98>>, <<195, 169>>,
      Rep(255, 97), Rep(256, 97) }

\* port texts: "0", "80", "65535", "65536", "+80", "080", "", "x"
ConvPortTexts ==
    { <<48>>, <<56, 48>>, <<54, 53, 53, 51, 53>>, <<54, 53, 53, 51, 54>>, <<43, 56, 48>>,
      <<48, 56, 48>>, <<>>, <<120>> }

ConvPorts == {0, 80, 65535}

\* "host:port" and "host" strings, and (host, port) pairs
ConvTargets ==
    {[form |-> "Str", s |-> h \o <<Colon>> \o pt] : h \in ConvHosts, pt \in ConvPortTexts}
    \cup {[form |-> "Str", s |-> h] : h \in ConvHosts}
    \cup {[form |-> "StrPort", host |-> h, port |-> pn] : h \in ConvHosts, pn \in ConvPorts}

ConvNext ==
    \/ \E t \in ConvTargets : Connect(CodecProxy, t, CodecDns)
    \/ \E t \in ConvTargets : Bind(CodecProxy, t, CodecDns)

ConvSpec == Init /\ [][ConvNext]_vars


(***************************************************************************)
(* The handshake against a proxy that cooperates: a candidate accepts the  *)
(* connect, the socket takes every byte in the end and delivers            *)
(* well-formed replies that announce success, in any fragmentation, and    *)
(* the executor polls again after every not-ready.                         *)
(***************************************************************************)
LiveProxies ==
    { [form |-> "Slice", addrs |-> <<A1, A2>>], [form |-> "Str", s |-> ProxyName] }

LiveDns == Ok(<<A1>>)

\* 1.1.1.1:443 and "ab:80"
LiveTargets ==
    { [form |-> "SocketAddr", addr |-> SockV4(<<1, 1, 1, 1>>, 443)],
      [form |-> "Str", s |-> <<97, 98, 58, 56, 48>>] }

\* (username length, password length)
LiveCredLens == { <<1, 2>>, <<256, 255>> }

\* what the pending connect may return: it fails only while a candidate remains
LiveConnects ==
    {"Ready", "NotReady"} \cup (IF Len(proxy.items) > 0 THEN {"Err"} ELSE {})

\* the bytes a cooperating proxy sends at offset pos of the frame read in state st:
\* a method the client offered, status 0, REP 0 with a known ATYP, a name of ASCII
LiveSamples(st, pos, b) ==
    CASE st = "MethodSent" ->
           IF pos = 0 THEN {5} ELSE {0} \cup (IF auth.kind = "Password" THEN {2} ELSE {})
      [] st = "PasswordAuthSent" -> IF pos = 0 THEN {1} ELSE {0}
      [] st = "RequestSent" ->
           CASE pos = 0 -> {5}
             [] pos = 3 -> {1, 4, 3}
             [] OTHER -> {0}
      [] st = "PrepareReadAddress" -> {1, 2}
      [] st = "ReadAddress" /\ At(b, 3) = 3 ->
           CASE pos >= 5 + At(b, 4) -> IF pos = 5 + At(b, 4) THEN {0} ELSE {80}
             [] OTHER -> {97}
      [] OTHER -> RxSamples(st, pos, b)

RECURSIVE LiveData(_, _, _, _)
\* the byte strings of length k the cooperating proxy may deliver at offset pos
LiveData(st, pos, b, k) ==
    IF k = 0 THEN {<<>>}
    ELSE {<<c>> \o d : c \in LiveSamples(st, pos, b), d \in LiveData(st, pos + 1, b, k - 1)}

\* a read that delivers bytes
LiveReads ==
    IF state \notin ReadStates THEN {}
    ELSE {[kind |-> "Bytes", data |-> d] :
            d \in UNION {LiveData(state, ptr, buf, k) : k \in ChunkSizes(len - ptr)}}

\* a write that takes bytes
LiveWrites == {o \in WriteOutcomes : o.kind = "Bytes"}

\* the socket is not ready
LiveNotReady == {[kind |-> "NotReady"]}

\* the constructors, called with arguments they may or may not accept
LiveConstruct ==
    \/ \E p \in LiveProxies, t \in LiveTargets : Connect(p, t, LiveDns)
    \/ \E p \in LiveProxies, t \in LiveTargets, c \in LiveCredLens :
          ConnectWithPassword(p, t, Username(c), Password(c), LiveDns)
    \/ \E p \in LiveProxies, t \in LiveTargets : Bind(p, t, LiveDns)
    \/ \E p \in LiveProxies, t \in LiveTargets, c \in LiveCredLens :
          BindWithPassword(p, t, Username(c), Password(c), LiveDns)

\* the steps that move the handshake on
LiveProgress ==
    \/ Accept
    \/ PollUninitialized
    \/ \E o \in LiveConnects \ {"NotReady"} : PollCreated(o)
    \/ \E o \in LiveWrites : PollConnected(o)
    \/ \E o \in LiveReads : PollMethodSent(o)
    \/ \E o \in LiveWrites : PollPasswordAuth(o)
    \/ \E o \in LiveReads : PollPasswordAuthSent(o)
    \/ PollPrepareRequest
    \/ \E o \in LiveWrites : PollSendRequest(o)
    \/ \E o \in LiveReads : PollRequestSent(o)
    \/ \E o \in LiveReads : PollPrepareReadAddress(o)
    \/ \E o \in LiveReads : PollReadAddress(o)

\* the polls that find the connect or the socket not ready
LiveSuspend ==
    \/ PollCreated("NotReady")
    \/ \E o \in LiveNotReady : PollConnected(o)
    \/ \E o \in LiveNotReady : PollMethodSent(o)
    \/ \E o \in LiveNotReady : PollPasswordAuth(o)
    \/ \E o \in LiveNotReady : PollPasswordAuthSent(o)
    \/ \E o \in LiveNotReady : PollSendRequest(o)
    \/ \E o \in LiveNotReady : PollRequestSent(o)
    \/ \E o \in LiveNotReady : PollPrepareReadAddress(o)
    \/ \E o \in LiveNotReady : PollReadAddress(o)

LiveNext == LiveConstruct \/ LiveProgress \/ LiveSuspend

\* a future that can be polled is polled again, and the socket moves bytes in the end
LiveSpec == Init /\ [][LiveNext]_vars /\ WF_vars(LiveProgress)


(***************************************************************************)
(* The wire, as RFC 1928 frames it: what the claims compare the driver to. *)
(***************************************************************************)
IsConnect == ctor \in {"connect", "connect_with_password"}

\* the command reply the proxy has sent so far: what follows the method-selection
\* reply and, after method 0x02, the 2-byte sub-negotiation reply; accept() reads
\* a reply and nothing else
Reply ==
    IF ctor = "accept" THEN rx
    ELSE IF Len(rx) >= 2 /\ rx[2] = 2 THEN SubSeq(rx, 5, Len(rx))
    ELSE SubSeq(rx, 3, Len(rx))

\* [VER, REP, RSV, ATYP] announces success and a known address type
GoodHeader(r) ==
    Len(r) >= 4 /\ r[1] = 5 /\ r[2] = 0 /\ r[3] = 0 /\ r[4] \in {1, 4, 3}

\* the length of the reply that starts with r
WireLen(r) ==
    CASE r[4] = 1 -> 10
      [] r[4] = 4 -> 22
      [] OTHER -> IF Len(r) >= 5 THEN 7 + r[5] ELSE 5

\* the whole of a successful reply has been delivered
ReplyComplete == GoodHeader(Reply) /\ Len(Reply) = WireLen(Reply)

\* BND.ADDR and BND.PORT of the complete reply r
WireAddr(r) ==
    CASE r[4] = 1 -> Ip(SockV4(SubSeq(r, 5, 8), r[9] * 256 + r[10]))
      [] r[4] = 4 -> Ip(SockV6(SubSeq(r, 5, 20), r[21] * 256 + r[22]))
      [] OTHER -> Domain(SubSeq(r, 6, 5 + r[5]), r[6 + r[5]] * 256 + r[7 + r[5]])

\* the reply carries a domain name that is not UTF-8
BadName(r) == r[4] = 3 /\ ~IsUtf8(SubSeq(r, 6, 5 + r[5]))

Last(q) == q[Len(q)]

(***************************************************************************)
(* C1 (as claimed): for a CONNECT handshake, once a reply with VER = 5,    *)
(* REP = 0, RSV = 0 and ATYP in {1, 4, 3} has been delivered in full, the  *)
(* future has resolved to a stream whose target_addr() is the reply's      *)
(* BND.ADDR and BND.PORT.                                                  *)
(***************************************************************************)
C1_ReplyAddressIsTarget ==
    (IsConnect /\ ReplyComplete) =>
        /\ pollRet = "Ready"
        /\ stream.some
        /\ stream.val.target = WireAddr(Reply)

(***************************************************************************)
(* C1 (amended): the same, except that a reply with ATYP = 3 whose name is *)
(* not valid UTF-8 fails the future with InvalidTargetAddress.             *)
(***************************************************************************)
C1_ReplyAddressIsTargetUnlessBadName ==
    (IsConnect /\ ReplyComplete) =>
        IF BadName(Reply)
        THEN pollRet = "Err" /\ error.kind = "InvalidTargetAddress" /\ ~stream.some
        ELSE /\ pollRet = "Ready"
             /\ stream.some
             /\ stream.val.target = WireAddr(Reply)

\* a CONNECT resolved to a stream whose address is a name the proxy chose, not
\* the requested target
C1_Witness ==
    /\ IsConnect
    /\ ReplyComplete
    /\ stream.some
    /\ stream.val.target.variant = "Domain"
    /\ stream.val.target # target
    /\ Len(stream.val.target.name) = 2

(***************************************************************************)
(* C2: the candidates are tried in the order of the sequence, each at most *)
(* once (what was tried and what remains make up the sequence); the        *)
(* handshake runs on the candidate connected last; a failed connect is     *)
(* never the error of the future; and the future fails with                *)
(* ProxyServerUnreachable exactly when poll has returned with the sequence *)
(* exhausted and no connection made.                                       *)
(***************************************************************************)
C2_ProxyFailover ==
    (ctorRes = "Ok" /\ ctor # "accept") =>
        /\ connects \o proxy.items = candidates
        /\ (conn_fut.some => conn_fut.val = Last(connects))
        /\ (tcp.some => tcp.val = Last(connects))
        /\ (pollRet = "Err" /\ error.kind = "Io" => tcp.some \/ proxy.res = "None")
        /\ (pollRet = "Err" /\ error.kind = "ProxyServerUnreachable")
             <=> (/\ pollRet \notin {"none", "Running"}
                  /\ state = "Uninitialized"
                  /\ proxy = ProxyStream(<<>>, "Ok"))

\* the first candidate refused, the second connected, the handshake under way
C2_Witness ==
    /\ candidates = <<A1, A2>>
    /\ connects = <<A1, A2>>
    /\ tcp = Some(A2)
    /\ Len(rx) >= 2

(***************************************************************************)
(* C3: while the future holds a connected socket no step pulls a candidate *)
(* or starts a connect, and a step that fails completes the future with an *)
(* error, whatever remains in the proxy sequence.                          *)
(***************************************************************************)
C3_NoFailoverAfterConnect ==
    [][tcp.some =>
          /\ proxy' = proxy
          /\ connects' = connects
          /\ state' \notin {"Uninitialized", "Created"}
          /\ (error' # error => pollRet' = "Err")]_vars

\* a protocol error ended the handshake while a candidate was still untried
C3_Witness ==
    /\ pollRet = "Err"
    /\ error.kind = "HostUnreachable"
    /\ tcp.some
    /\ Len(proxy.items) > 0

(***************************************************************************)
(* C4 (as claimed): every call of poll returns; a call does not go round   *)
(* its loop again and again without moving a byte or changing state.       *)
(***************************************************************************)
C4_PollReturns == spins < MaxSpin

(***************************************************************************)
(* C5: a BindFuture resolves, once the first reply is complete, to a       *)
(* listener whose bind_addr() is that reply's address; the future of       *)
(* accept() resolves, once a second reply is complete, to a stream on the  *)
(* same socket whose target_addr() is the second reply's address.          *)
(***************************************************************************)
C5_BindTwoPhase ==
    /\ (IsBind /\ ReplyComplete /\ ~BadName(Reply)) =>
          /\ pollRet = "Ready"
          /\ listener.some
          /\ ~stream.some
          /\ listener.val.inner.target = WireAddr(Reply)
          /\ listener.val.inner.tcp = Last(connects)
    /\ listener.some => (IsBind /\ ReplyComplete)
    /\ (ctor = "accept" /\ ReplyComplete /\ ~BadName(Reply)) =>
          /\ pollRet = "Ready"
          /\ stream.some
          /\ stream.val.target = WireAddr(rx)
          /\ stream.val.tcp = Last(connects)
    /\ (ctor = "accept" /\ stream.some) => ReplyComplete

\* accept() resolved to a stream whose address is not the listener's bind address
C5_Witness ==
    /\ ctor = "accept"
    /\ stream.some
    /\ stream.val.target # target
    /\ stream.val.target.variant = "Ip"
    /\ target.variant = "Ip"


(***************************************************************************)
(* C6 (as claimed): a driver that authenticates with a password was built  *)
(* from a username and a password of 1 to 255 bytes each, and a            *)
(* constructor that failed with InvalidAuthValues did no I/O.              *)
(***************************************************************************)
C6_CredentialsValidated ==
    /\ (ctorRes = "Ok" /\ auth.kind = "Password") =>
          /\ Len(auth.username) \in 1..255
          /\ Len(auth.password) \in 1..255
    /\ ctorRes = "InvalidAuthValues" =>
          /\ state = "None"
          /\ resolved = 0
          /\ connects = <<>>
          /\ tx = <<>>

(***************************************************************************)
(* C7 (as claimed): a constructor that returned InvalidTargetAddress made  *)
(* no name look-up for the proxy, no connect and no write before it.       *)
(***************************************************************************)
C7_TargetCheckedBeforeIo ==
    ctorRes = "InvalidTargetAddress" =>
        /\ resolved = 0
        /\ connects = <<>>
        /\ tx = <<>>

\* the handshake is in, or past, the request phase
InRequestPhase ==
    state \in {"PrepareRequest", "SendRequest", "RequestSent", "PrepareReadAddress",
               "ReadAddress"}

\* poll returned the error e from state st
FailedIn(st, e) == pollRet = "Err" /\ error = e /\ state = st

(***************************************************************************)
(* C8 (as claimed): once the method-selection reply [VER, METHOD] is in,   *)
(* VER # 5 has failed the future with InvalidResponseVersion; otherwise    *)
(* METHOD 0 has taken it to the request phase with nothing written but the *)
(* greeting, METHOD 2 to the password sub-negotiation, METHOD 0xFF has     *)
(* failed it with NoAcceptableAuthMethods and any other METHOD with        *)
(* UnknownAuthMethod, whatever the authentication.                         *)
(***************************************************************************)
C8_MethodReplyTable ==
    (ctorRes = "Ok" /\ ctor # "accept" /\ Len(rx) >= 2) =>
        IF rx[1] # 5 THEN FailedIn("MethodSent", E("InvalidResponseVersion"))
        ELSE CASE rx[2] = 0 ->
                    /\ InRequestPhase
                    /\ tx = SubSeq(MethodSelectionFrame(auth) \o RequestFrame(command, target),
                                   1, Len(tx))
               [] rx[2] = 2 ->
                    /\ pollRet # "Panic"
                    /\ state \in {"PasswordAuth", "PasswordAuthSent"} \/ InRequestPhase
               [] rx[2] = 255 -> FailedIn("MethodSent", E("NoAcceptableAuthMethods"))
               [] OTHER -> FailedIn("MethodSent", E("UnknownAuthMethod"))

\* the username/password frame of RFC 1929 for the credentials of a
WirePasswordFrame(a) ==
    <<1, Len(a.username) % 256>> \o a.username \o <<Len(a.password) % 256>> \o a.password

\* everything written up to and including the password frame
WireAuthPrefix == MethodSelectionFrame(auth) \o WirePasswordFrame(auth)

(***************************************************************************)
(* C9: the reply [VER, STATUS] is read only after the whole password frame *)
(* is written; once it is in, VER # 1 has failed the future with           *)
(* InvalidResponseVersion, otherwise STATUS # 0 with                       *)
(* PasswordAuthFailure(STATUS), in both cases with nothing written after   *)
(* the password frame; and [1, 0] has taken the handshake to the request   *)
(* phase.                                                                  *)
(***************************************************************************)
C9_PasswordReply ==
    /\ state = "PasswordAuthSent" => tx = WireAuthPrefix
    /\ (ctor # "accept" /\ Len(rx) >= 4 /\ rx[1] = 5 /\ rx[2] = 2) =>
          IF rx[3] # 1
          THEN /\ FailedIn("PasswordAuthSent", E("InvalidResponseVersion"))
               /\ tx = WireAuthPrefix
          ELSE IF rx[4] # 0
          THEN /\ FailedIn("PasswordAuthSent", Err("PasswordAuthFailure", "", rx[4]))
               /\ tx = WireAuthPrefix
          ELSE /\ InRequestPhase
               /\ SubSeq(tx, 1, Len(WireAuthPrefix)) = WireAuthPrefix
               /\ (state \in {"RequestSent", "PrepareReadAddress", "ReadAddress"} =>
                     tx = WireAuthPrefix \o RequestFrame(command, target))

\* the proxy rejected the password with status 0xFF
C9_Witness ==
    /\ Len(rx) = 4
    /\ rx[2] = 2
    /\ pollRet = "Err"
    /\ error = Err("PasswordAuthFailure", "", 255)
    /\ tx = WireAuthPrefix

\* the outcome RFC 1928 names for reply code rep, as the library reports it
WireReplyOutcome(rep) ==
    CASE rep = 1 -> "GeneralSocksServerFailure"
      [] rep = 2 -> "ConnectionNotAllowedByRuleset"
      [] rep = 3 -> "NetworkUnreachable"
      [] rep = 4 -> "HostUnreachable"
      [] rep = 5 -> "ConnectionRefused"
      [] rep = 6 -> "TtlExpired"
      [] rep = 7 -> "CommandNotSupported"
      [] rep = 8 -> "AddressTypeNotSupported"
      [] OTHER -> "UnknownAuthMethod"

(***************************************************************************)
(* C10: once the reply header [VER, REP, RSV, ATYP] is in, VER # 5 has     *)
(* failed the future with InvalidResponseVersion; otherwise RSV # 0 with   *)
(* InvalidReservedByte; otherwise REP 1..8 with the error of the table and *)
(* any other non-zero REP with UnknownAuthMethod; and REP 0 has gone on to *)
(* the address (or failed on an unknown ATYP).                             *)
(***************************************************************************)
C10_ReplyCodeTable ==
    Len(Reply) >= 4 =>
        IF Reply[1] # 5 THEN FailedIn("RequestSent", E("InvalidResponseVersion"))
        ELSE IF Reply[3] # 0 THEN FailedIn("RequestSent", E("InvalidReservedByte"))
        ELSE IF Reply[2] # 0 THEN FailedIn("RequestSent", E(WireReplyOutcome(Reply[2])))
        ELSE IF Reply[4] \in {1, 4, 3} THEN state \in {"PrepareReadAddress", "ReadAddress"}
        ELSE FailedIn("RequestSent", E("UnknownAddressType"))

\* the proxy answered with reply code 0x06
C10_Witness ==
    /\ Len(Reply) = 4
    /\ Reply[1] = 5
    /\ Reply[2] = 6
    /\ Reply[3] = 0
    /\ pollRet = "Err"
    /\ error.kind = "TtlExpired"


\* the phases in which the reply to the command is read
ReplyStates == {"RequestSent", "PrepareReadAddress", "ReadAddress"}

(***************************************************************************)
(* C11: in a reading phase the bytes taken from the socket for the frame   *)
(* are exactly the cursor, which never passes frame_len; a phase is left,  *)
(* a protocol error raised or the stream produced only with the frame      *)
(* read in full; and when the future resolves, the bytes taken for the     *)
(* reply are exactly the reply, none of what follows it.                   *)
(***************************************************************************)
C11_ReadsFillTheFrame ==
    ctorRes = "Ok" =>
        /\ state \in ReadStates => ptr <= len
        /\ state = "MethodSent" => Len(rx) = ptr
        /\ state = "PasswordAuthSent" => Len(rx) = 2 + ptr
        /\ state \in ReplyStates => Len(Reply) = ptr
        /\ (ctor # "accept" /\ state \in {"PasswordAuth", "PasswordAuthSent"} \cup
                                         {"PrepareRequest", "SendRequest"} \cup ReplyStates)
              => Len(rx) >= 2
        /\ (ctor # "accept" /\ state \in {"PrepareRequest", "SendRequest"} \cup ReplyStates
              /\ rx[2] = 2) => Len(rx) >= 4
        /\ state = "PrepareReadAddress" => ptr >= 4
        /\ state = "ReadAddress" => ptr >= (IF Reply[4] = 3 THEN 5 ELSE 4)
        /\ (state \in ReadStates /\ pollRet = "Err" /\ error.kind # "Io") => ptr = len
        /\ pollRet = "Ready" => (ptr = len /\ Len(Reply) = WireLen(Reply))

\* suspended in the middle of the address of a reply
C11_Witness ==
    /\ state = "ReadAddress"
    /\ pollRet = "NotReady"
    /\ ptr > 5
    /\ ptr < len
    /\ Len(Reply) = ptr

(***************************************************************************)
(* C12: nothing is read before the whole greeting is written, nothing of   *)
(* the next frame is written before the reply to the previous one is read  *)
(* in full, and so on through the password and the command exchange: in a  *)
(* writing phase the bytes read are whole replies, in a reading phase the  *)
(* bytes written are whole frames.                                         *)
(***************************************************************************)
C12_FramesSerialized ==
    /\ (ctorRes = "Ok" /\ ctor = "accept") => tx = <<>>
    /\ (ctorRes = "Ok" /\ ctor # "accept") =>
          LET m == MethodSelectionFrame(auth)
              pw == Len(rx) >= 2 /\ rx[2] = 2 /\ auth.kind = "Password"
              before == IF pw THEN WireAuthPrefix ELSE m
              replies == IF pw THEN 4 ELSE 2
          IN /\ Len(rx) > 0 => Len(tx) >= Len(m)
             /\ Len(tx) > Len(m) => Len(rx) >= 2
             /\ (pw /\ Len(rx) > 2) => Len(tx) >= Len(WireAuthPrefix)
             /\ Len(tx) > Len(before) => Len(rx) >= replies
             /\ Len(rx) > replies => tx = before \o RequestFrame(command, target)
             /\ state = "Connected" => rx = <<>>
             /\ state = "PasswordAuth" => Len(rx) = 2
             /\ state \in {"PrepareRequest", "SendRequest"} => Len(rx) = replies
             /\ state = "MethodSent" => tx = m
             /\ state = "PasswordAuthSent" => tx = WireAuthPrefix
             /\ state \in ReplyStates => tx = before \o RequestFrame(command, target)

\* suspended in the middle of the command request, after the password exchange
C12_Witness ==
    /\ state = "SendRequest"
    /\ pollRet = "NotReady"
    /\ ptr > 0
    /\ Len(rx) = 4
    /\ Len(tx) = Len(WireAuthPrefix) + ptr


\* the frames written before the command request
WireBefore ==
    IF Len(rx) >= 2 /\ rx[2] = 2 /\ auth.kind = "Password"
    THEN WireAuthPrefix
    ELSE MethodSelectionFrame(auth)

(***************************************************************************)
(* C13 (as claimed): in every state of a driver, whatever constructor      *)
(* built it, cursor <= frame_len <= 513; and each frame is armed with      *)
(* frame_len its expected length and the cursor at 0, so that the cursor   *)
(* is the number of bytes of that frame moved so far.                      *)
(***************************************************************************)
C13_CursorWithinFrame ==
    ctorRes = "Ok" =>
        /\ ptr <= len
        /\ len <= BufSize
        /\ state = "Connected" =>
              (len = Len(MethodSelectionFrame(auth)) /\ ptr = Len(tx))
        /\ state = "MethodSent" => (len = 2 /\ ptr = Len(rx))
        /\ (state = "PasswordAuth" /\ auth.kind = "Password") =>
              /\ len = 3 + Len(auth.username) + Len(auth.password)
              /\ ptr = Len(tx) - Len(MethodSelectionFrame(auth))
        /\ state = "PasswordAuthSent" => (len = 2 /\ ptr = Len(rx) - 2)
        /\ state = "SendRequest" =>
              /\ len = Len(RequestFrame(command, target))
              /\ ptr = Len(tx) - Len(WireBefore)
        /\ state = "RequestSent" => (len = 4 /\ ptr = Len(Reply))


\* the command request of RFC 1928: VER, CMD, RSV, ATYP, DST.ADDR, DST.PORT
WireRequest(cmd, t) ==
    IF t.variant = "Domain"
    THEN <<5, cmd, 0, 3, Len(t.name)>> \o t.name \o <<t.port \div 256, t.port % 256>>
    ELSE <<5, cmd, 0, IF t.addr.v = 4 THEN 1 ELSE 4>> \o t.addr.ip
           \o <<t.addr.port \div 256, t.addr.port % 256>>

\* t as the wire can carry it: a V6 address without its flowinfo and scope_id
OnWire(t) ==
    IF t.variant = "Ip" /\ t.addr.v = 6 THEN Ip(SockV6(t.addr.ip, t.addr.port)) ELSE t

(***************************************************************************)
(* C14 (amended): the request written for (command, target) is             *)
(* [5, CMD, 0, ATYP, DST.ADDR, DST.PORT] with the port high byte first,    *)
(* and a success reply carrying the same ATYP, address and port bytes      *)
(* resolves the future to the target, a V6 target with its flowinfo and    *)
(* scope_id set to zero.                                                   *)
(***************************************************************************)
C14_EncodeParseInverseOnWire ==
    ctorRes = "Ok" =>
        /\ pollRet \notin {"Err", "Panic"}
        /\ state \in ReplyStates =>
              tx = MethodSelectionFrame(auth) \o WireRequest(command, target)
        /\ pollRet = "Ready" =>
              IF IsBind
              THEN listener.some /\ listener.val.inner.target = OnWire(target)
              ELSE stream.some /\ stream.val.target = OnWire(target)

(***************************************************************************)
(* C14 (as claimed): the request written for (command, target) is          *)
(* [5, CMD, 0, ATYP, DST.ADDR, DST.PORT] with the port high byte first,    *)
(* and a success reply carrying the same ATYP, address and port bytes      *)
(* resolves the future to an address equal to the target.                  *)
(***************************************************************************)
C14_EncodeParseInverse ==
    ctorRes = "Ok" =>
        /\ pollRet \notin {"Err", "Panic"}
        /\ state \in ReplyStates =>
              tx = MethodSelectionFrame(auth) \o WireRequest(command, target)
        /\ pollRet = "Ready" =>
              IF IsBind
              THEN listener.some /\ listener.val.inner.target = target
              ELSE stream.some /\ stream.val.target = target

\* a CONNECT to a name of 255 bytes came back as that name
C14_Witness ==
    /\ pollRet = "Ready"
    /\ stream.some
    /\ stream.val.target = Domain(Rep(255, 97), 65535)
    /\ target = stream.val.target
    /\ command = CmdConnect


\* the constructor was called with a "host:port" string / a (host, port) pair
ArgStr == targetArg.some /\ targetArg.val.form = "Str"
ArgPair == targetArg.some /\ targetArg.val.form = "StrPort"

\* the text before and after the rightmost ':' of the string argument
ArgHost == SubSeq(targetArg.val.s, 1, Max(Positions(targetArg.val.s, Colon)) - 1)
ArgPortText ==
    SubSeq(targetArg.val.s, Max(Positions(targetArg.val.s, Colon)) + 1,
           Len(targetArg.val.s))

\* the string argument is no literal socket address, and has a ':' followed by a port
ArgSplits ==
    /\ ArgStr
    /\ ~ParseSocketAddr(targetArg.val.s).ok
    /\ Positions(targetArg.val.s, Colon) # {}
    /\ ParseU16(ArgPortText).ok

\* the constructor stored the TargetAddr t
Stored(t) == ctorRes = "Ok" /\ target = t

\* the SocketAddr of a bare IP text and a port
BareIp(host, port) ==
    IF ParseIpAddr(host).v = 4
    THEN SockV4(ParseIpAddr(host).ip, port)
    ELSE SockV6(ParseIpAddr(host).ip, port)

(***************************************************************************)
(* C15 (as claimed): a string that parses as a literal socket address and  *)
(* a pair whose host parses as a bare IP give Ip; every other "host:port"  *)
(* string, split at its rightmost ':', and every other pair, with a name   *)
(* of at most 255 bytes, gives Domain(name, port).                         *)
(***************************************************************************)
C15_IpOrDomain ==
    /\ (ArgStr /\ ParseSocketAddr(targetArg.val.s).ok) =>
          Stored(Ip(ParseSocketAddr(targetArg.val.s).addr))
    /\ (ArgPair /\ ParseIpAddr(targetArg.val.host).ok) =>
          Stored(Ip(BareIp(targetArg.val.host, targetArg.val.port)))
    /\ (ArgSplits /\ Len(ArgHost) <= 255) =>
          Stored(Domain(ArgHost, ParseU16(ArgPortText).val))
    /\ (ArgPair /\ ~ParseIpAddr(targetArg.val.host).ok /\ Len(targetArg.val.host) <= 255) =>
          Stored(Domain(targetArg.val.host, targetArg.val.port))

(***************************************************************************)
(* C15 (amended): the same, except that a "host:port" string that is no    *)
(* literal socket address but whose host, the text before the rightmost    *)
(* ':', parses as a bare IP gives Ip of that address and the port.         *)
(***************************************************************************)
C15_IpOrDomainByHost ==
    /\ (ArgStr /\ ParseSocketAddr(targetArg.val.s).ok) =>
          Stored(Ip(ParseSocketAddr(targetArg.val.s).addr))
    /\ (ArgPair /\ ParseIpAddr(targetArg.val.host).ok) =>
          Stored(Ip(BareIp(targetArg.val.host, targetArg.val.port)))
    /\ (ArgSplits /\ ParseIpAddr(ArgHost).ok) =>
          Stored(Ip(BareIp(ArgHost, ParseU16(ArgPortText).val)))
    /\ (ArgSplits /\ ~ParseIpAddr(ArgHost).ok /\ Len(ArgHost) <= 255) =>
          Stored(Domain(ArgHost, ParseU16(ArgPortText).val))
    /\ (ArgPair /\ ~ParseIpAddr(targetArg.val.host).ok /\ Len(targetArg.val.host) <= 255) =>
          Stored(Domain(targetArg.val.host, targetArg.val.port))

\* "::1:80", no literal socket address, became Ip([::1]:80)
C15_Witness ==
    /\ ArgSplits
    /\ targetArg.val.s = <<58, 58, 49, 58, 56, 48>>
    /\ Stored(Ip(SockV6(Rep(15, 0) \o <<1>>, 80)))

\* the host text of the argument
ArgName == IF ArgStr THEN ArgHost ELSE targetArg.val.host

(***************************************************************************)
(* C16 (as claimed): a Domain stored by a constructor has a name of        *)
(* 1..=255 bytes of UTF-8; a name of 255 bytes is accepted and a name of   *)
(* 256 bytes fails with InvalidTargetAddress.                              *)
(***************************************************************************)
C16_DomainNameLength ==
    /\ (ctorRes = "Ok" /\ target.variant = "Domain") =>
          (Len(target.name) \in 1..255 /\ IsUtf8(target.name))
    /\ ((ArgSplits \/ ArgPair) /\ Len(ArgName) = 255) =>
          Stored(Domain(ArgName, target.port))
    /\ ((ArgSplits \/ ArgPair) /\ Len(ArgName) >= 256) =>
          ctorRes = "InvalidTargetAddress"

\* the names of the addresses the library holds
DomainNames ==
    {t.name : t \in {x \in (IF ctorRes = "Ok" THEN {target} ELSE {})
                            \cup (IF stream.some THEN {stream.val.target} ELSE {})
                            \cup (IF listener.some THEN {listener.val.inner.target} ELSE {}) :
                       x.variant = "Domain"}}

(***************************************************************************)
(* C17 (as claimed): no Domain the library holds, made from the caller's   *)
(* input or from a reply with ATYP = 0x03, has a name that parses as a     *)
(* literal IP address.                                                     *)
(***************************************************************************)
C17_DomainIsNoIpLiteral == \A n \in DomainNames : ~ParseIpAddr(n).ok

\* the version identifier/method selection message of RFC 1928 section 3
WireGreeting == IF auth.kind = "None" THEN <<5, 1, 0>> ELSE <<5, 2, 0, 2>>

(***************************************************************************)
(* C18: the first bytes written on the connected socket are the            *)
(* method-selection frame, [5, 1, 0] without authentication and            *)
(* [5, 2, 0, 2] with a password, for CONNECT and BIND alike; while it is   *)
(* being written the bytes accepted so far are the first ptr bytes of the  *)
(* frame, and once it is written they are exactly the frame.               *)
(***************************************************************************)
C18_GreetingFirst ==
    (ctorRes = "Ok" /\ ctor # "accept") =>
        /\ state \in {"Uninitialized", "Created"} => tx = <<>>
        /\ state = "Connected" =>
              /\ len = Len(WireGreeting)
              /\ Len(tx) = ptr
              /\ tx = SubSeq(WireGreeting, 1, ptr)
        /\ state = "MethodSent" => tx = WireGreeting
        /\ state \notin {"Uninitialized", "Created", "Connected"} =>
              /\ Len(tx) >= Len(WireGreeting)
              /\ SubSeq(tx, 1, Len(WireGreeting)) = WireGreeting

\* a BIND with a password, half of whose greeting the socket has accepted
C18_Witness ==
    /\ ctor = "bind_with_password"
    /\ command = CmdBind
    /\ state = "Connected"
    /\ ptr = 2
    /\ tx = <<5, 2>>

\* the username/password request of RFC 1929 section 2 for the credentials held,
\* each length field the number of bytes that follow it
WireCredentials ==
    <<1, Len(auth.username)>> \o auth.username \o <<Len(auth.password)>> \o auth.password

(***************************************************************************)
(* C19 (as claimed): a driver built by connect_with_password or            *)
(* bind_with_password that reaches PasswordAuth writes                     *)
(* [1, ULEN, UNAME, PLEN, PASSWD], ULEN the number of username bytes and   *)
(* PLEN the number of password bytes, 3 + ULEN + PLEN bytes in all.        *)
(***************************************************************************)
C19_PasswordFrameLengths ==
    (ctorRes = "Ok" /\ ctor \in {"connect_with_password", "bind_with_password"}) =>
        /\ state = "PasswordAuth" =>
              /\ len = 3 + Len(auth.username) + Len(auth.password)
              /\ Slice(buf, 0, len) = WireCredentials
              /\ tx = WireGreeting \o SubSeq(WireCredentials, 1, ptr)
        /\ state = "PasswordAuthSent" => tx = WireGreeting \o WireCredentials

(***************************************************************************)
(* C20: after the header [5, 0, 0, ATYP] the reply is read to 10 bytes for *)
(* ATYP 1, to 22 for ATYP 4, and for ATYP 3 first to 5 bytes and then to   *)
(* 7 + LEN, LEN the fifth byte, from 0 to 255; never a byte more; and any  *)
(* other ATYP fails with UnknownAddressType with the 4 header bytes read.  *)
(***************************************************************************)
C20_ReplyLengthByAtyp ==
    (Len(rx) >= 4 /\ rx[1] = 5 /\ rx[2] = 0 /\ rx[3] = 0) =>
        /\ rx[4] \notin {1, 4, 3} =>
              /\ FailedIn("RequestSent", E("UnknownAddressType"))
              /\ Len(rx) = 4
        /\ rx[4] = 1 => Len(rx) <= 10
        /\ rx[4] = 4 => Len(rx) <= 22
        /\ rx[4] = 3 => Len(rx) <= (IF Len(rx) >= 5 THEN 7 + rx[5] ELSE 5)
        /\ state = "PrepareReadAddress" => (rx[4] = 3 /\ len = 5)
        /\ state = "ReadAddress" =>
              len = (CASE rx[4] = 1 -> 10 [] rx[4] = 4 -> 22 [] OTHER -> 7 + rx[5])
        /\ pollRet = "Ready" =>
              Len(rx) = (CASE rx[4] = 1 -> 10 [] rx[4] = 4 -> 22 [] OTHER -> 7 + rx[5])

\* a reply with a name of 255 bytes read to its end, 262 bytes in all
C20_Witness ==
    /\ pollRet = "Ready"
    /\ rx[4] = 3
    /\ rx[5] = 255
    /\ Len(rx) = 262

(***************************************************************************)
(* C21: the future accept() returns starts in RequestSent with cursor 0    *)
(* and frame_len 4 on the listener's socket; from then on it writes        *)
(* nothing, connects nowhere, pulls no candidate and so never fails with   *)
(* ProxyServerUnreachable; and the header of the second reply is judged by *)
(* the rules of the first: version, reserved byte, REP, ATYP.              *)
(***************************************************************************)
C21_AcceptOnlyReads ==
    [][ctor' = "accept" =>
          IF ctor # "accept"
          THEN /\ listener.some
               /\ state' = "RequestSent"
               /\ ptr' = 0
               /\ len' = 4
               /\ tcp' = Some(listener.val.inner.tcp)
               /\ proxy'.items = <<>>
               /\ tx' = <<>>
               /\ rx' = <<>>
          ELSE /\ tx' = <<>>
               /\ connects' = connects
               /\ proxy' = proxy
               /\ conn_fut' = None
               /\ tcp' \in {tcp, None}
               /\ state' \in ReplyStates
               /\ error'.kind # "ProxyServerUnreachable"
               /\ Len(rx') >= 4 =>
                     IF rx'[1] # 5
                     THEN pollRet' = "Err" /\ error' = E("InvalidResponseVersion")
                     ELSE IF rx'[3] # 0
                     THEN pollRet' = "Err" /\ error' = E("InvalidReservedByte")
                     ELSE IF rx'[2] # 0
                     THEN pollRet' = "Err" /\ error' = E(WireReplyOutcome(rx'[2]))
                     ELSE IF rx'[4] \in {1, 4, 3}
                     THEN state' \in {"PrepareReadAddress", "ReadAddress"}
                     ELSE pollRet' = "Err" /\ error' = E("UnknownAddressType")]_vars

\* the second reply, read in full, gave the stream of the accepted peer
C21_Witness ==
    /\ ctor = "accept"
    /\ pollRet = "Ready"
    /\ stream.some
    /\ Len(rx) = 10
    /\ tx = <<>>

(***************************************************************************)
(* C22: when the look-up of the proxy's name fails, the proxy sequence     *)
(* holds the resolver's error and nothing else; the first poll takes it    *)
(* and completes the handshake with that Io error, with no TCP connect and *)
(* never with ProxyServerUnreachable; a look-up that gives no address      *)
(* completes the handshake with ProxyServerUnreachable.                    *)
(***************************************************************************)
C22_ResolutionFailure ==
    (ctorRes = "Ok" /\ resolved = 1) =>
        /\ proxy.res # "Ok" =>
              /\ candidates = <<>>
              /\ proxy.items = <<>>
              /\ connects = <<>>
              /\ tx = <<>>
              /\ state = "Uninitialized"
        /\ proxy.res = "Err" => pollRet = "none"
        /\ proxy.res = "None" => (pollRet = "Err" /\ error = E("Io"))
        /\ (proxy.res = "Ok" /\ candidates = <<>>) =>
              /\ connects = <<>>
              /\ state = "Uninitialized"
              /\ pollRet = "none" \/ (pollRet = "Err" /\ error = E("ProxyServerUnreachable"))
        /\ (pollRet = "Err" /\ error.kind = "ProxyServerUnreachable") => proxy.res = "Ok"

\* the look-up failed and the first poll returned the resolver's error
C22_Witness ==
    /\ resolved = 1
    /\ proxy.res = "None"
    /\ pollRet = "Err"
    /\ error = E("Io")
    /\ connects = <<>>

(***************************************************************************)
(* C23 (as claimed): no poll of a future that has not completed panics,    *)
(* whatever the proxy sends: a poll returns not-ready, the stream or an    *)
(* Error; a future without credentials that reads the method reply [5, 2]  *)
(* arms a password frame or fails with an Error.                           *)
(***************************************************************************)
C23_NoPanic ==
    /\ pollRet # "Panic"
    /\ (ctorRes = "Ok" /\ ctor # "accept" /\ auth.kind = "None"
          /\ Len(rx) >= 2 /\ rx[1] = 5 /\ rx[2] = 2) =>
          \/ pollRet = "Err"
          \/ state \in {"PasswordAuth", "PasswordAuthSent"} /\ ptr <= len /\ len >= 3

\* p is the beginning of q
IsPrefix(p, q) == Len(p) <= Len(q) /\ p = SubSeq(q, 1, Len(p))

\* the method-selection reply read so far is complete and chooses username/password
MethodChosen == Len(rx) >= 2 /\ rx[1] = 5 /\ rx[2] = 2

(***************************************************************************)
(* C24: the username/password frame is written only once the whole method  *)
(* reply [5, 2] has been read; until then, and for good when the reply is  *)
(* anything else, the bytes written are the greeting followed at most by   *)
(* the command request; a future with credentials answered with method 0   *)
(* goes straight to the command request; and after a method-selection      *)
(* error the bytes written are the greeting and nothing more.              *)
(***************************************************************************)
C24_CredentialsAfterMethodChosen ==
    (ctorRes = "Ok" /\ ctor # "accept") =>
        /\ state \in {"PasswordAuth", "PasswordAuthSent"} => MethodChosen
        /\ Len(rx) < 2 => IsPrefix(tx, WireGreeting)
        /\ ~MethodChosen => IsPrefix(tx, WireGreeting \o WireRequest(command, target))
        /\ (auth.kind = "Password" /\ Len(rx) >= 2 /\ rx[1] = 5 /\ rx[2] = 0) =>
              /\ InRequestPhase
              /\ IsPrefix(tx, WireGreeting \o WireRequest(command, target))
        /\ (state = "MethodSent" /\ Len(rx) = 2) =>
              /\ pollRet \in {"Err", "Panic"}
              /\ tx = WireGreeting

\* a future with credentials, answered with method 0, has written its request
C24_Witness ==
    /\ auth.kind = "Password"
    /\ Len(rx) >= 2
    /\ rx[1] = 5
    /\ rx[2] = 0
    /\ state = "RequestSent"
    /\ tx = WireGreeting \o WireRequest(command, target)

\* the header [VER, REP, RSV, ATYP] fails one of the four checks
HeaderFails(r) == r[1] # 5 \/ r[3] # 0 \/ r[2] # 0 \/ r[4] \notin {1, 4, 3}

(***************************************************************************)
(* C25: the reply header is checked in the order version, reserved byte,   *)
(* reply code, address type, and the first check that fails names the      *)
(* error: REP # 0 with RSV # 0 gives InvalidReservedByte, REP # 0 with an  *)
(* unsupported ATYP gives the error of that REP and never                  *)
(* UnknownAddressType; and after a failing header no further reply byte is *)
(* read.                                                                   *)
(***************************************************************************)
C25_HeaderCheckOrder ==
    Len(Reply) >= 4 =>
        /\ (Reply[1] # 5 /\ (Reply[3] # 0 \/ Reply[2] # 0)) =>
              error = E("InvalidResponseVersion")
        /\ (Reply[1] = 5 /\ Reply[2] # 0 /\ Reply[3] # 0) =>
              error = E("InvalidReservedByte")
        /\ (Reply[1] = 5 /\ Reply[3] = 0 /\ Reply[2] # 0 /\ Reply[4] \notin {1, 4, 3}) =>
              /\ error = E(WireReplyOutcome(Reply[2]))
              /\ error.kind # "UnknownAddressType"
        /\ HeaderFails(Reply) =>
              /\ pollRet = "Err"
              /\ state = "RequestSent"
              /\ Len(Reply) = 4

\* REP = 5 with a reserved byte of 1 and an unsupported ATYP: InvalidReservedByte
C25_Witness ==
    /\ Reply = <<5, 5, 1, 2>>
    /\ pollRet = "Err"
    /\ error = E("InvalidReservedByte")

\* this step is a poll in which the socket (or the pending connect) was not ready
StepNotReady == ctorRes = "Ok" /\ ctor' = ctor /\ pollRet' = "NotReady"

\* this step wrote k >= 1 bytes without completing the frame
StepPartialWrite ==
    /\ state \in WriteStates
    /\ ctor' = ctor
    /\ Len(tx') > Len(tx)
    /\ ptr + (Len(tx') - Len(tx)) < len

\* this step read k >= 1 bytes without completing the frame
StepPartialRead ==
    /\ state \in ReadStates
    /\ ctor' = ctor
    /\ Len(rx') > Len(rx)
    /\ ptr + (Len(rx') - Len(rx)) < len

(***************************************************************************)
(* C26 (as claimed): a poll in which the socket is not ready leaves phase, *)
(* cursor, frame_len, the buffer and the remaining proxy sequence as they  *)
(* were; a partial write or read of k bytes changes, of these, only the    *)
(* cursor, by exactly k; so the bytes written are the next k of the frame, *)
(* none twice and none skipped.                                            *)
(***************************************************************************)
C26_OnlyCursorMoves ==
    [][/\ StepNotReady => UNCHANGED <<state, ptr, len, buf, proxy>>
       /\ StepPartialWrite =>
             /\ ptr' = ptr + (Len(tx') - Len(tx))
             /\ tx' = tx \o Slice(buf, ptr, ptr')
             /\ UNCHANGED <<state, len, buf, proxy>>
       /\ StepPartialRead =>
             /\ ptr' = ptr + (Len(rx') - Len(rx))
             /\ UNCHANGED <<state, len, buf, proxy>>]_vars

(***************************************************************************)
(* C26 (amended): the same, except that a partial read of k bytes also     *)
(* stores the k bytes read in the buffer from the old cursor on, leaving   *)
(* the rest of the buffer as it was.                                       *)
(***************************************************************************)
C26_CursorAndBytesRead ==
    [][/\ StepNotReady => UNCHANGED <<state, ptr, len, buf, proxy>>
       /\ StepPartialWrite =>
             /\ ptr' = ptr + (Len(tx') - Len(tx))
             /\ tx' = tx \o Slice(buf, ptr, ptr')
             /\ UNCHANGED <<state, len, buf, proxy>>
       /\ StepPartialRead =>
             /\ ptr' = ptr + (Len(rx') - Len(rx))
             /\ Slice(buf', ptr, ptr') = SubSeq(rx', Len(rx) + 1, Len(rx'))
             /\ Slice(buf', 0, ptr) = Slice(buf, 0, ptr)
             /\ Slice(buf', ptr', BufSize) = Slice(buf, ptr', BufSize)
             /\ UNCHANGED <<state, len, proxy>>]_vars

\* suspended after the first of the two bytes of the method reply
C26_Witness ==
    /\ state = "MethodSent"
    /\ pollRet = "NotReady"
    /\ ptr = 1
    /\ len = 2
    /\ rx = <<5>>
    /\ At(buf, 0) = 5

\* the phases in the order the handshake passes through them
PhaseOrder ==
    <<"Uninitialized", "Created", "Connected", "MethodSent", "PasswordAuth",
      "PasswordAuthSent", "PrepareRequest", "SendRequest", "RequestSent",
      "PrepareReadAddress", "ReadAddress">>

PhaseRank(st) == CHOOSE i \in 1..Len(PhaseOrder) : PhaseOrder[i] = st

\* the phases that may follow phase st
NextPhases(st) ==
    CASE st = "Uninitialized" -> {"Created"}
      [] st = "Created" -> {"Connected", "Uninitialized"}
      [] st = "Connected" -> {"MethodSent"}
      [] st = "MethodSent" -> {"PasswordAuth", "PrepareRequest"}
      [] st = "PasswordAuth" -> {"PasswordAuthSent"}
      [] st = "PasswordAuthSent" -> {"PrepareRequest"}
      [] st = "PrepareRequest" -> {"SendRequest"}
      [] st = "SendRequest" -> {"RequestSent"}
      [] st = "RequestSent" -> {"PrepareReadAddress", "ReadAddress"}
      [] st = "PrepareReadAddress" -> {"ReadAddress"}
      [] OTHER -> {}

\* a step of one future from one phase to another
PhaseChange == ctorRes = "Ok" /\ ctor' = ctor /\ state' # state

(***************************************************************************)
(* C27 (as claimed): against a proxy of which a candidate accepts the      *)
(* connect, which takes every byte written and delivers every well-formed  *)
(* successful reply in full, and polled again after every not-ready, a     *)
(* CONNECT future resolves to a stream, a BIND future to a listener and    *)
(* the future of accept to a stream; the phases follow one another in the  *)
(* order of the handshake, and none is gone back to once the socket is     *)
(* connected.                                                              *)
(***************************************************************************)
C27_HandshakeCompletes ==
    /\ (ctorRes = "Ok" /\ IsConnect) ~> (pollRet = "Ready" /\ stream.some)
    /\ (ctorRes = "Ok" /\ IsBind) ~> listener.some
    /\ (ctorRes = "Ok" /\ ctor = "accept") ~> (pollRet = "Ready" /\ stream.some)
    /\ [][PhaseChange =>
             /\ state' \in NextPhases(state)
             /\ tcp.some => PhaseRank(state') > PhaseRank(state)]_vars

====
